---- MODULE Spec2Model ----
(***************************************************************************)
(* hecat: the software_metadata processor (GitHub / GitLab enrichment).   *)
(* A run of software_metadata() is modelled as a state machine: the       *)
(* recursion process_*_batch -> process_graphql_request -> on_batch_split *)
(* is an explicit stack of frames, the remote API is the environment      *)
(* (it picks the outcome of every HTTP POST), and every request, sleep    *)
(* and file write is appended to the history variable `events`.           *)
(***************************************************************************)
EXTENDS Integers, Sequences, FiniteSets, TLC

VARIABLES
    cfg,             \* module_options: max_retries, batch_size
    environ,         \* os.environ: the providers whose token variable is set
    software,        \* software_list: the records in memory, in load order
    disk,            \* the record files: disk[i] is the file of software[i]
    pc,              \* position of software_metadata(): start, github, gitlab, exit0, exit1, crashed
    provider,        \* provider whose queue is being processed ("none" before / after)
    projects,        \* github_projects / gitlab_projects: indices into software
    batches,         \* the batches planned for the current provider
    counter,         \* add_*_metadata: number of the current top-level batch
    stack,           \* call stack of process_*_batch frames (last = innermost)
    errors,          \* the errors list
    events,          \* history: every request, sleep and write, in order
    anomalies,       \* history: number of non-retryable anomalies the environment has injected
    \* the record store seen as files (StoreSpec)
    files,           \* source_directory/software: file name (without .yml) -> record
    loaded,          \* software_list as load_yaml_data returns it; `file`: where each came from
    \* the commit-history aggregator of one record (HistorySpec)
    today,           \* datetime.now(): [year, month]
    months_to_keep,  \* commit_history_clean_months
    commit_history,  \* software['commit_history']: a dict, as a sequence of [ym, count]
    before,          \* history: software['commit_history'] before the last operation
    fetched,         \* history: the per-month counts of the last response
    merged,          \* history: the local commit_history of process_github_batch at line 390
    op,              \* history: the last operation ("none", "cleanup", "update")
    \* the identifier extractors applied to one URL string (ExtractSpec)
    given_url,       \* the URL: [scheme, host, path], path a string of characters
    extracted,       \* history: [prov, ident] the extractor applied and what it returned
    \* one top-level batch during an outage of the API (OutageSpec)
    retries,         \* max_retries
    top_batch,       \* batch_items of the first call
    first_attempt,   \* attempt of the first call
    pending,         \* the calls of process_graphql_request still to run: [batch, attempt]
    sent,            \* history: the number of HTTP requests sent
    \* runs of the url_check processor over one failed-URLs file (UrlCheckSpec)
    module_options,  \* escalation_limit, errors_are_fatal
    failed_urls_file,\* the lines of the file, or absent
    check_run,       \* check_urls(): the URLs left to check, checked_urls, errors, status
    log,             \* history: the level each check was reported at
    streak,          \* history: per URL, its consecutive failed checks so far
    \* the query and the reconciliation of one GitLab batch (AliasSpec)
    gitlab_batch,    \* batch: the repository paths, as strings of characters
    repo_to_alias,   \* repo_to_alias, in batch order (empty before the query is built)
    response_data,   \* data['data']: per alias, the path of the project answered under it
    applied          \* history: per batch position, the path of the entry applied to its record

\* the variables of the run of software_metadata() (Spec)
run == <<cfg, environ, software, disk, pc, provider, projects, batches, counter, stack,
         errors, events, anomalies>>
\* the variables of the component specifications
store == <<files, loaded>>
aggregator == <<today, months_to_keep, commit_history, before, fetched, merged, op>>
extractor == <<given_url, extracted>>
outage == <<retries, top_batch, first_attempt, pending, sent>>
checker == <<module_options, failed_urls_file, check_run, log, streak>>
aliaser == <<gitlab_batch, repo_to_alias, response_data, applied>>
aux == <<store, aggregator, extractor, outage, checker, aliaser>>
\* what each component specification leaves alone
beside_store == <<run, aggregator, extractor, outage, checker, aliaser>>
beside_aggregator == <<run, store, extractor, outage, checker, aliaser>>
beside_extractor == <<run, store, aggregator, outage, checker, aliaser>>
beside_outage == <<run, store, aggregator, extractor, checker, aliaser>>
beside_checker == <<run, store, aggregator, extractor, outage, aliaser>>
beside_aliaser == <<run, store, aggregator, extractor, outage, checker>>
vars == <<run, aux>>

-----------------------------------------------------------------------------
(* Bounds of the model *)
MaxRecords == 3
MaxRetriesBound == 3
MaxAnomalies == 1

(* sleep_time, in abstract seconds *)
SleepTime == 1

-----------------------------------------------------------------------------
(* Small helpers *)
Min(a, b) == IF a < b THEN a ELSE b
Max(a, b) == IF a > b THEN a ELSE b
\* mutant: the power grows by one with each attempt
Pow2Linear(n) == n + 1
Pow2(n) == 2 ^ n
Last(s) == s[Len(s)]
Front(s) == SubSeq(s, 1, Len(s) - 1)
Range(s) == {s[i] : i \in 1..Len(s)}

RECURSIVE Flatten(_)
Flatten(ss) == IF ss = <<>> THEN <<>> ELSE Head(ss) \o Flatten(Tail(ss))

RECURSIVE SeqsOf(_)
\* all orderings of a finite set (iteration order of a Python set)
SeqsOf(S) == IF S = {} THEN {<<>>}
             ELSE UNION {{<<x>> \o t : t \in SeqsOf(S \ {x})} : x \in S}

-----------------------------------------------------------------------------
(* URLs and identifiers.  A repository name is a lower-case "owner/repo"  *)
(* string; a spelling of it may use upper-case letters; a URL may end in  *)
(* a slash.                                                               *)
Names == {"foo/bar", "baz/qux", "org/app", "dev/lib"}
UnknownName == "old/name"

Ident(n, u) == [name |-> n, upper |-> u]
Url(h, n, u, s) == [host |-> h, name |-> n, upper |-> u, slash |-> s]
NoIdent == [name |-> "", upper |-> FALSE]
NoUrl == [host |-> "", name |-> "", upper |-> FALSE, slash |-> FALSE]

\* str.casefold()
casefold(ident) == [ident EXCEPT !.upper = FALSE]

\* str.rstrip('/') after removing the host prefix: the path of the URL
StripHost(url) == [name |-> url.name, upper |-> url.upper]

detect_provider(url) ==
    IF url.host = "github" THEN "github"
    ELSE IF url.host = "gitlab" THEN "gitlab"
    ELSE "none"

extract_github_repo_identifier(url) ==
    IF url.host = "github" /\ url.name # "" THEN Ident(url.name, url.upper) ELSE NoIdent

extract_gitlab_repo_identifier(url) ==
    IF url.host = "gitlab" /\ url.name # "" THEN Ident(url.name, url.upper) ELSE NoIdent

extract_repo_func(prov, url) ==
    IF prov = "github" THEN extract_github_repo_identifier(url)
    ELSE extract_gitlab_repo_identifier(url)

\* f'{base_url}/{missing_repo}'
BaseUrl(prov, ident) == Url(prov, ident.name, ident.upper, FALSE)

\* the canonical URL the GitHub API reports for a repository
RemoteUrl(n) == Url("github", n, n = "foo/bar", FALSE)
RemoteStars(n) == CASE n = "foo/bar" -> 42 [] n = "baz/qux" -> 7 [] OTHER -> 3
RemoteArchived(n) == n = "baz/qux"

-----------------------------------------------------------------------------
(* Errors and events, as uniform records *)
Err(kind, label, ident, url, n) ==
    [kind |-> kind, label |-> label, ident |-> ident, url |-> url, n |-> n]

\* label: the batch number of the frame the event belongs to (<<2>> is batch
\* 2, <<2, 1>> its chunk "2a"); the provider is the one being processed
ReqEv(batch, attempt, label, outcome, resp) ==
    [type |-> "req", batch |-> batch, attempt |-> attempt, label |-> label,
     outcome |-> outcome, dur |-> 0, rec |-> 0, resp |-> resp]
SleepEv(kind, dur, label) ==
    [type |-> "sleep", batch |-> <<>>, attempt |-> 0, label |-> label,
     outcome |-> kind, dur |-> dur, rec |-> 0, resp |-> <<>>]
WriteEv(rec, label) ==
    [type |-> "write", batch |-> <<>>, attempt |-> 0, label |-> label,
     outcome |-> "", dur |-> 0, rec |-> rec, resp |-> <<>>]
RaiseEv(label) ==
    [type |-> "raise", batch |-> <<>>, attempt |-> 0, label |-> label,
     outcome |-> "", dur |-> 0, rec |-> 0, resp |-> <<>>]
StartEv(prov) ==
    [type |-> "provider", batch |-> <<>>, attempt |-> 0, label |-> <<>>,
     outcome |-> prov, dur |-> 0, rec |-> 0, resp |-> <<>>]

-----------------------------------------------------------------------------
(* Batch planning and splitting *)

\* mutant: only the full windows are planned
PlanBatchesFullOnly(repos, batch_size) ==
    [i \in 1..(Len(repos) \div batch_size) |->
        SubSeq(repos, (i - 1) * batch_size + 1, i * batch_size)]
\* batches = [repos[i*batch_size:(i+1)*batch_size] for i in range((len+bs-1)//bs)]
PlanBatches(repos, batch_size) ==
    [i \in 1..((Len(repos) + batch_size - 1) \div batch_size) |->
        SubSeq(repos, (i - 1) * batch_size + 1, Min(i * batch_size, Len(repos)))]

\* repos = [re.sub('https://github.com/', '', url).rstrip('/').casefold() ...]
NormalizeGithub(url) == casefold(StripHost(url))

\* extract_gitlab_repo_identifier(url).rstrip('/').casefold()
NormalizeGitlab(url) == casefold(extract_gitlab_repo_identifier(url))

\* the chunks process_graphql_request cuts batch_items into at the given attempt
\* mutant: the batch is cut into single identifiers at once
num_splits_singles(batch_items, attempt) == Len(batch_items)
\* mutant: one chunk more with every attempt
num_splits_by_attempt(batch_items, attempt) == Min(attempt + 1, Len(batch_items))
num_splits(batch_items, attempt) == Min(Pow2(attempt - 1), Len(batch_items))
chunk_size(batch_items, attempt) ==
    Max(1, Len(batch_items) \div num_splits(batch_items, attempt))
\* mutant: the last chunk is cut like the others and loses the remainder
RawChunkNoRemainder(batch_items, attempt, i) ==
    LET cs == chunk_size(batch_items, attempt)
        start == (i - 1) * cs
    IN  SubSeq(batch_items, start + 1, Min(start + cs, Len(batch_items)))
RawChunk(batch_items, attempt, i) ==
    LET cs == chunk_size(batch_items, attempt)
        start == (i - 1) * cs
    IN  IF i = num_splits(batch_items, attempt)
        THEN SubSeq(batch_items, start + 1, Len(batch_items))
        ELSE SubSeq(batch_items, start + 1, Min(start + cs, Len(batch_items)))
RECURSIVE KeepNonEmpty(_)
KeepNonEmpty(cs) ==
    IF cs = <<>> THEN <<>>
    ELSE IF Head(cs) = <<>> THEN KeepNonEmpty(Tail(cs))
    ELSE <<Head(cs)>> \o KeepNonEmpty(Tail(cs))
split_batches(batch_items, attempt) ==
    KeepNonEmpty([i \in 1..num_splits(batch_items, attempt) |->
                    RawChunk(batch_items, attempt, i)])

-----------------------------------------------------------------------------
(* Frames of the call stack: one per process_github_batch /               *)
(* process_gitlab_batch invocation.  pc: "request" (about to POST),       *)
(* "split" (inside the on_batch_split loop), "reconcile" (applying data). *)
Frame(batch, attempt, label) ==
    [batch |-> batch, attempt |-> attempt, label |-> label, pc |-> "request",
     chunks |-> <<>>, i |-> 0, resp |-> <<>>, k |-> 0, found |-> {}]

\* handle_batch_split: the callback runs process_*_batch on the chunk; the
\* chunk suffix comes from split_counter, which counts the callback's calls
\* mutant: the chunk is processed with the next attempt number
handle_batch_split_next_attempt(parent, i) ==
    Frame(parent.chunks[i], parent.attempt + 1, Append(parent.label, i))
\* mutant: the chunk is processed from the first attempt again
handle_batch_split_first_attempt(parent, i) ==
    Frame(parent.chunks[i], 1, Append(parent.label, i))
handle_batch_split(parent, i) ==
    Frame(parent.chunks[i], parent.attempt, Append(parent.label, i))

\* The innermost frame returns: its caller is either the chunk loop of
\* process_graphql_request (more chunks: sleep, next chunk; last chunk: return
\* the split marker, so the parent's process_*_batch returns too) or the
\* batch loop of add_*_metadata (empty stack).
RECURSIVE Return(_, _)
Return(stk, ev) ==
    LET rest == Front(stk) IN
    IF rest = <<>> THEN [stack |-> <<>>, events |-> ev]
    ELSE LET parent == Last(rest) IN
         IF parent.i < Len(parent.chunks)
         THEN LET p2 == [parent EXCEPT !.i = parent.i + 1] IN
              [stack  |-> Front(rest) \o <<p2, handle_batch_split(p2, p2.i)>>,
               events |-> Append(ev, SleepEv("chunk", SleepTime, parent.label))]
         ELSE Return(rest, ev)

\* mutant: the next batch is requested without the sleep between batches
ResumeUnpaced(stk, errs, ev) ==
    /\ errors' = errs
    /\ IF stk # <<>>
       THEN /\ stack' = stk
            /\ events' = ev
            /\ UNCHANGED <<counter, pc, provider>>
       ELSE IF counter < Len(batches)
       THEN /\ counter' = counter + 1
            /\ stack' = <<Frame(batches[counter + 1], 1, <<counter + 1>>)>>
            /\ events' = ev
            /\ UNCHANGED <<pc, provider>>
       ELSE /\ stack' = <<>>
            /\ events' = ev
            /\ counter' = counter
            /\ provider' = "none"
            /\ pc' = IF provider = "github" THEN "gitlab" ELSE "finish"

\* mutant: the batch loop takes the batches from the end of the list
ResumeFromLast(stk, errs, ev) ==
    /\ errors' = errs
    /\ IF stk # <<>>
       THEN /\ stack' = stk
            /\ events' = ev
            /\ UNCHANGED <<counter, pc, provider>>
       ELSE IF counter < Len(batches)
       THEN /\ counter' = counter + 1
            /\ stack' = <<Frame(batches[Len(batches) - counter], 1, <<counter + 1>>)>>
            /\ events' = Append(ev, SleepEv("batch", SleepTime, <<counter>>))
            /\ UNCHANGED <<pc, provider>>
       ELSE /\ stack' = <<>>
            /\ events' = ev
            /\ counter' = counter
            /\ provider' = "none"
            /\ pc' = IF provider = "github" THEN "gitlab" ELSE "finish"
\* The batch loop of add_github_metadata / add_gitlab_metadata, entered
\* whenever the stack has emptied; otherwise the run goes on inside the stack.
Resume(stk, errs, ev) ==
    /\ errors' = errs
    /\ IF stk # <<>>
       THEN /\ stack' = stk
            /\ events' = ev
            /\ UNCHANGED <<counter, pc, provider>>
       ELSE IF counter < Len(batches)
       THEN /\ counter' = counter + 1
            /\ stack' = <<Frame(batches[counter + 1], 1, <<counter + 1>>)>>
            /\ events' = Append(ev, SleepEv("batch", SleepTime, <<counter>>))
            /\ UNCHANGED <<pc, provider>>
       ELSE /\ stack' = <<>>
            /\ events' = ev
            /\ counter' = counter
            /\ provider' = "none"
            /\ pc' = IF provider = "github" THEN "gitlab" ELSE "finish"

\* mutant: a batch without data ends the run
NoDataEndsRun(stk, errs, ev) ==
    /\ errors' = Append(errs, Err("NoData", <<>>, NoIdent, NoUrl, 0))
    /\ stack' = <<>>
    /\ events' = ev
    /\ counter' = counter
    /\ provider' = "none"
    /\ pc' = "finish"

\* process_*_batch got data None: 'No data received from GraphQL API', return
NoData(stk, errs, ev) ==
    LET r == Return(stk, ev) IN
    Resume(r.stack, Append(errs, Err("NoData", <<>>, NoIdent, NoUrl, 0)), r.events)

\* An exception leaves the innermost frame's process_*_batch.  Inside a split
\* it is caught by the except clause of the parent's process_graphql_request
\* (the callback runs inside its try block); at top level nothing catches it.
Raise(stk, errs, ev) ==
    LET rest == Front(stk) IN
    IF rest = <<>>
    THEN /\ pc' = "crashed"
         /\ stack' = <<>>
         /\ errors' = errs
         /\ events' = ev
         /\ UNCHANGED <<counter, provider>>
    ELSE NoData(rest, Append(errs, Err("BatchException", Last(rest).label, NoIdent, NoUrl, 0)), ev)

-----------------------------------------------------------------------------
(* process_graphql_request: classification of one HTTP response *)

FailedRepo(ident, n) == Err("FailedRepo", <<>>, ident, NoUrl, n)

\* mutant: the retry sends the identifiers in another order
RetryRotated(f, errs, ev) ==
    /\ stack' = Append(Front(stack), [f EXCEPT !.attempt = f.attempt + 1,
                                               !.batch = Tail(f.batch) \o <<Head(f.batch)>>])
    /\ errors' = errs
    /\ events' = ev
    /\ UNCHANGED <<counter, pc, provider>>

\* 'Retrying batch with same size' / single item retried: same batch, attempt + 1
RetrySame(f, errs, ev) ==
    /\ stack' = Append(Front(stack), [f EXCEPT !.attempt = f.attempt + 1])
    /\ errors' = errs
    /\ events' = ev
    /\ UNCHANGED <<counter, pc, provider>>

\* mutant: the status is answered by a backoff sleep and a retry
NonRetryableRetried(f, errs, ev) ==
    RetrySame(f, errs, Append(ev, SleepEv("backoff", SleepTime, f.label)))

\* status_code != 200 and not retried
NonRetryable(f, errs, ev) ==
    NoData(stack, Append(errs, Err("RespCode", f.label, NoIdent, NoUrl, 0)), ev)

\* status in [502, 503, 504, 429]
Retryable(f, ev) ==
    IF f.attempt <= cfg.max_retries
    THEN LET backoff_time == SleepTime * Pow2(f.attempt - 1)
             ev2 == Append(ev, SleepEv("backoff", backoff_time, f.label))
         IN  IF f.attempt = 1
             THEN RetrySame(f, errors, ev2)
             ELSE IF Len(f.batch) > 1
             THEN LET sb == split_batches(f.batch, f.attempt) IN
                  IF sb # <<>>
                  THEN LET p == [f EXCEPT !.pc = "split", !.chunks = sb, !.i = 1] IN
                       /\ stack' = Front(stack) \o <<p, handle_batch_split(p, 1)>>
                       /\ events' = ev2
                       /\ UNCHANGED <<errors, counter, pc, provider>>
                  ELSE NonRetryable(f, errors, ev2)
             ELSE LET errs1 == IF Len(f.batch) = 1
                               THEN Append(errors, FailedRepo(f.batch[1], f.attempt))
                               ELSE errors
                  IN  IF f.attempt < cfg.max_retries
                      THEN RetrySame(f, errs1, ev2)
                      ELSE NoData(stack,
                                  IF Len(f.batch) = 1
                                  THEN Append(errs1, FailedRepo(f.batch[1], cfg.max_retries))
                                  ELSE errs1,
                                  ev2)
    ELSE \* repo_identifier is never empty: errors[-1] is overwritten
         NoData(stack,
                errors \o << IF f.label # <<>>
                             THEN Err("FailedFor", f.label, NoIdent, NoUrl, cfg.max_retries)
                             ELSE Err("RespCodeAfter", <<>>, NoIdent, NoUrl, cfg.max_retries),
                             Err("GraphQLFailed", <<>>, NoIdent, NoUrl, cfg.max_retries) >>,
                ev)

\* HTTP 200 whose body has a top-level 'errors' array (one message)
GraphQLErrors(f, ev) ==
    IF f.label # <<>>
    THEN NoData(stack,
                errors \o << Err("GqlMessage", f.label, NoIdent, NoUrl, 0),
                             Err("GqlErrors", f.label, NoIdent, NoUrl, 0) >>,
                ev)
    ELSE /\ pc' = "exit1"
         /\ stack' = <<>>
         /\ errors' = errors \o << Err("GqlMessage", <<>>, NoIdent, NoUrl, 0),
                                   Err("GqlErrors", <<>>, NoIdent, NoUrl, 0) >>
         /\ events' = ev
         /\ UNCHANGED <<counter, provider>>

\* requests.post raised
RequestException(f, ev) ==
    NoData(stack, Append(errors, Err("BatchException", f.label, NoIdent, NoUrl, 0)), ev)

\* HTTP 200 with data: process_*_batch goes on to apply it
Success(f, resp, ev) ==
    /\ stack' = Append(Front(stack), [f EXCEPT !.pc = "reconcile", !.resp = resp, !.k = 1])
    /\ events' = ev
    /\ UNCHANGED <<errors, counter, pc, provider>>

process_graphql_request(f, out, ev) ==
    CASE out.status = "retryable"    -> Retryable(f, ev)
      [] out.status = "nonretryable" -> NonRetryable(f, errors, ev)
      [] out.status = "gqlerrors"    -> GraphQLErrors(f, ev)
      [] out.status = "exception"    -> RequestException(f, ev)
      [] out.status = "ok"           -> Success(f, out.resp, ev)

-----------------------------------------------------------------------------
(* The remote API: what a POST for the innermost frame may answer.  A    *)
(* retryable status may come at any request; every other deviation from  *)
(* a complete, well-formed HTTP 200 answer (another status, an exception, *)
(* GraphQL errors, an incomplete answer, a malformed or an unrequested    *)
(* entry, a failed write) counts 1 in `anomalies`, bounded by             *)
(* MaxAnomalies.                                                          *)

RECURSIVE Dedup(_)
\* the distinct elements of a sequence, in order of first occurrence
Dedup(s) == IF s = <<>> THEN <<>>
            ELSE LET d == Dedup(Front(s)) IN
                 IF Last(s) \in Range(d) THEN d ELSE Append(d, Last(s))

RECURSIVE Select(_, _)
Select(s, S) == IF s = <<>> THEN <<>>
                ELSE IF Head(s) \in S THEN <<Head(s)>> \o Select(Tail(s), S)
                ELSE Select(Tail(s), S)

\* one edge of a GitHub search result / one aliased project of a GitLab answer
Edge(url, ident, wellformed) == [url |-> url, ident |-> ident, wellformed |-> wellformed]

\* generate_gitlab_alias: every character outside [a-zA-Z0-9_] becomes '_'
generate_gitlab_alias(repo_path) ==
    CASE repo_path.name = "foo/bar" -> "foo_bar"
      [] repo_path.name = "baz/qux" -> "baz_qux"
      [] repo_path.name = "org/app" -> "org_app"
      [] repo_path.name = "dev/lib" -> "dev_lib"
      [] OTHER -> "old_name"

\* the entry the API returns for a requested identifier
RemoteEdge(prov, ident, wellformed) ==
    IF prov = "github"
    THEN Edge(RemoteUrl(ident.name), NoIdent, wellformed)
    ELSE Edge(NoUrl, ident, wellformed)

\* the unrequested entries a GitHub search may return (a renamed repository)
ExtraEdges(prov, batch) ==
    IF prov = "github"
    THEN {Edge(Url("github", n, FALSE, FALSE), NoIdent, TRUE) :
            n \in (Names \cup {UnknownName}) \ {b.name : b \in Range(batch)}}
         \cup {Edge(NoUrl, NoIdent, TRUE)}
    ELSE {}

\* HTTP 200 answers: the requested identifiers in `present` (one of them
\* possibly without a default branch), preceded by at most one extra entry
OkAnswers(prov, batch) ==
    LET ids == Dedup(batch) IN
    {[status |-> "ok", cost |-> c.cost, resp |-> c.resp] : c \in
       UNION {
         LET sel == Select(ids, present)
             base == [j \in 1..Len(sel) |-> RemoteEdge(prov, sel[j], TRUE)]
             miss == IF Len(sel) < Len(ids) THEN 1 ELSE 0
         IN  {[cost |-> miss, resp |-> base]}
             \cup {[cost |-> miss + 1,
                    resp |-> [base EXCEPT ![j] = RemoteEdge(prov, sel[j], FALSE)]] :
                   j \in 1..Len(sel)}
             \cup {[cost |-> miss + 1, resp |-> <<x>> \o base] : x \in ExtraEdges(prov, batch)}
         : present \in SUBSET Range(ids)}}

Answers(prov, batch) ==
    {[status |-> "retryable", cost |-> 0, resp |-> <<>>]}
    \cup {[status |-> st, cost |-> 1, resp |-> <<>>] :
            st \in {"nonretryable", "gqlerrors", "exception"}}
    \cup OkAnswers(prov, batch)

\* the answer to a request sent with 'Authorization: Bearer None': HTTP 401
Unauthorized == {[status |-> "nonretryable", cost |-> 0, resp |-> <<>>]}

-----------------------------------------------------------------------------
(* Reconciliation *)

\* the first project of the queue whose identifier casefolds to ident (0: none)
RECURSIVE FirstMatch(_, _, _, _)
FirstMatch(prov, sw, queue, ident) ==
    IF queue = <<>> THEN 0
    ELSE LET pid == extract_repo_func(prov, sw[Head(queue)].url) IN
         IF pid # NoIdent /\ casefold(pid) = ident THEN Head(queue)
         ELSE FirstMatch(prov, sw, Tail(queue), ident)

\* the fields a well-formed entry sets on the matched record
ApplyEntry(rec, n) ==
    [rec EXCEPT !.stargazers_count = RemoteStars(n),
                !.archived = RemoteArchived(n),
                !.has = @ \cup {"stargazers_count", "updated_at", "archived"}]

\* what line 365 / 561 has already done when the next line raises
ApplyPartial(rec, n) ==
    [rec EXCEPT !.stargazers_count = RemoteStars(n),
                !.has = @ \cup {"stargazers_count"}]

\* mutant: the URL is always rebuilt from the identifier
missing_url_rebuilt(prov, sw, queue, missing_repo) == BaseUrl(prov, missing_repo)

\* find_missing_repos: the URL reported for a missing identifier
missing_url(prov, sw, queue, missing_repo) ==
    LET j == FirstMatch(prov, sw, queue, missing_repo) IN
    IF j # 0 THEN sw[j].url ELSE BaseUrl(prov, missing_repo)

\* mutant: the found identifiers are not subtracted
missing_repos_whole_batch(batch, found_repos) == Range(batch)

\* missing_repos = batch_repos - found_repos
missing_repos(batch, found_repos) == Range(batch) \ found_repos

find_missing_repos(prov, sw, queue, order) ==
    [j \in 1..Len(order) |->
        Err("NotFound", <<>>, order[j], missing_url(prov, sw, queue, order[j]), 0)]

-----------------------------------------------------------------------------
(* The record store *)
Record(i, url, has) ==
    [name |-> i, url |-> url, has |-> has,
     stargazers_count |-> IF "stargazers_count" \in has THEN 5 ELSE 0,
     archived |-> FALSE]

\* the source_code_url values a record may carry
UrlPool ==
    { Url("github", "foo/bar", FALSE, FALSE),
      Url("github", "foo/bar", TRUE, TRUE),
      Url("github", "baz/qux", FALSE, TRUE),
      Url("gitlab", "org/app", FALSE, FALSE),
      Url("gitlab", "org/app", TRUE, TRUE) }

Stores ==
    UNION {[1..n -> UrlPool] : n \in 1..MaxRecords}

\* stores of one provider whose records are distinct repositories, spelled
\* in lower case without a trailing slash
PlainName(i) == CASE i = 1 -> "foo/bar" [] i = 2 -> "baz/qux" [] i = 3 -> "org/app"
                  [] OTHER -> "dev/lib"
PlainStores ==
    {[i \in 1..n |-> Url(h, PlainName(i), FALSE, FALSE)] :
        n \in 1..MaxRecords, h \in {"github", "gitlab"}}

\* Every configuration is explored over the plain stores, and every store
\* under this one configuration (max_retries: the default of line 424)
MixedCfg == [max_retries |-> 3, batch_size |-> 2, metadata_only_missing |-> FALSE]

\* The stores of records that already carry metadata, explored with
\* metadata_only_missing set: the fields a record file may already have
MaxPartial == 2
AllKeys == {"stargazers_count", "updated_at", "archived", "current_release", "commit_history"}
StoredKeys == {{}, AllKeys, AllKeys \ {"commit_history"}, AllKeys \ {"archived"}}
PartialPool ==
    [url : {Url("github", "foo/bar", FALSE, FALSE), Url("github", "baz/qux", FALSE, TRUE),
            Url("gitlab", "org/app", FALSE, FALSE)},
     has : StoredKeys]
PartialStores == UNION {[1..n -> PartialPool] : n \in 1..MaxPartial}
MissingOnlyCfg == [max_retries |-> 3, batch_size |-> 2, metadata_only_missing |-> TRUE]

\* mutant: the GitHub keys are required of every provider
required_keys_of_github(prov) == AllKeys

\* required_keys of software_metadata()
required_keys(prov) ==
    IF prov = "github"
    THEN {"stargazers_count", "updated_at", "archived", "current_release", "commit_history"}
    ELSE {"stargazers_count", "updated_at", "archived", "current_release"}

\* the queue of one provider: indices of software, in load order
RECURSIVE Queue(_, _, _)
Queue(sw, prov, i) ==
    IF i > Len(sw) THEN <<>>
    ELSE IF /\ detect_provider(sw[i].url) = prov
            /\ cfg.metadata_only_missing =>
                  \E key \in required_keys(prov) : key \notin sw[i].has
    THEN <<i>> \o Queue(sw, prov, i + 1)
    ELSE Queue(sw, prov, i + 1)

Repos(prov, sw, queue) ==
    [j \in 1..Len(queue) |->
        IF prov = "github" THEN NormalizeGithub(sw[queue[j]].url)
        ELSE NormalizeGitlab(sw[queue[j]].url)]

-----------------------------------------------------------------------------
(* The run *)

\* the component specifications are not running
StoreIdle ==
    /\ files = <<>>
    /\ loaded = <<>>

AggregatorIdle ==
    /\ today = [year |-> 2023, month |-> 7]
    /\ months_to_keep = 12
    /\ commit_history = <<>>
    /\ before = <<>>
    /\ fetched = <<>>
    /\ merged = <<>>
    /\ op = "none"

ExtractorIdle ==
    /\ given_url = [scheme |-> "https://", host |-> "github.com", path |-> <<>>]
    /\ extracted = [prov |-> "none", ident |-> <<>>]

OutageIdle ==
    /\ retries = 3
    /\ top_batch = <<>>
    /\ first_attempt = 1
    /\ pending = <<>>
    /\ sent = 0

CheckerIdle ==
    /\ module_options = [escalation_limit |-> 3, errors_are_fatal |-> FALSE]
    /\ failed_urls_file = [exists |-> FALSE, lines |-> <<>>]
    /\ check_run = [status |-> "idle", data |-> <<>>, checked_urls |-> {}, errors |-> <<>>,
                     error_count |-> 0]
    /\ log = <<>>
    /\ streak = <<>>

AliaserIdle ==
    /\ gitlab_batch = <<>>
    /\ repo_to_alias = <<>>
    /\ response_data = [errors |-> FALSE, data |-> {}]
    /\ applied = <<>>

AuxIdle ==
    StoreIdle /\ AggregatorIdle /\ ExtractorIdle /\ OutageIdle /\ CheckerIdle /\ AliaserIdle

\* the run of software_metadata() has not been started
RunIdle ==
    /\ cfg = MixedCfg
    /\ environ = {}
    /\ software = <<>>
    /\ disk = <<>>
    /\ pc = "idle"
    /\ provider = "none"
    /\ projects = [github |-> <<>>, gitlab |-> <<>>]
    /\ batches = <<>>
    /\ counter = 0
    /\ stack = <<>>
    /\ errors = <<>>
    /\ events = <<>>
    /\ anomalies = 0

Init ==
    /\ cfg \in [max_retries : 0..MaxRetriesBound, batch_size : 1..MaxRecords,
                 metadata_only_missing : BOOLEAN]
    /\ environ \in SUBSET {"github", "gitlab"}
    /\ \/ /\ ~cfg.metadata_only_missing
          /\ \E st \in Stores \cup PlainStores :
                /\ st \in PlainStores \/ cfg = MixedCfg
                /\ environ = {"github", "gitlab"} \/ (cfg = MixedCfg /\ st \in Stores)
                /\ disk = [i \in 1..Len(st) |-> Record(i, st[i], {})]
       \/ /\ cfg = MissingOnlyCfg
          /\ environ = {"github", "gitlab"}
          /\ \E st \in PartialStores :
                disk = [i \in 1..Len(st) |-> Record(i, st[i].url, st[i].has)]
    /\ software = <<>>
    /\ pc = "start"
    /\ provider = "none"
    /\ projects = [github |-> <<>>, gitlab |-> <<>>]
    /\ batches = <<>>
    /\ counter = 0
    /\ stack = <<>>
    /\ errors = <<>>
    /\ events = <<>>
    /\ anomalies = 0
    /\ AuxIdle

\* software_metadata(), up to the provider passes: load and queue the records
software_metadata ==
    /\ pc = "start"
    /\ software' = disk
    /\ projects' = [github |-> Queue(disk, "github", 1), gitlab |-> Queue(disk, "gitlab", 1)]
    /\ pc' = "github"
    /\ UNCHANGED <<aux, cfg, environ, disk, provider, batches, counter, stack, errors, events, anomalies>>

\* add_github_metadata / add_gitlab_metadata: plan the batches, start the first
add_metadata(prov, next) ==
    LET bs == PlanBatches(Repos(prov, software, projects[prov]), cfg.batch_size) IN
    /\ pc = prov
    /\ IF projects[prov] = <<>> \/ bs = <<>>
       THEN /\ pc' = next
            /\ UNCHANGED <<provider, batches, counter, stack>>
       ELSE /\ pc' = "run"
            /\ provider' = prov
            /\ batches' = bs
            /\ counter' = 1
            /\ stack' = <<Frame(bs[1], 1, <<1>>)>>
    /\ events' = IF projects[prov] = <<>> \/ bs = <<>> THEN events
                 ELSE Append(events, StartEv(prov))
    /\ UNCHANGED <<aux, cfg, environ, software, disk, projects, errors, anomalies>>

add_github_metadata == add_metadata("github", "gitlab")
add_gitlab_metadata == add_metadata("gitlab", "finish")

\* one HTTP POST of process_graphql_request and everything it does with the
\* answer, up to the next POST or the start of reconciliation
Post ==
    /\ pc = "run"
    /\ stack # <<>>
    /\ Last(stack).pc = "request"
    /\ \E out \in (IF provider \in environ THEN Answers(provider, Last(stack).batch)
                   ELSE Unauthorized) :
         LET f == Last(stack) IN
         /\ anomalies + out.cost <= MaxAnomalies
         /\ anomalies' = anomalies + out.cost
         /\ process_graphql_request(f, out,
                Append(events, ReqEv(f.batch, f.attempt, f.label, out.status, out.resp)))
    /\ UNCHANGED <<aux, cfg, environ, software, disk, projects, batches>>

\* what open(dest_file, 'w+') leaves of a file when yaml.dump then fails
Truncated(i) ==
    [name |-> i, url |-> NoUrl, has |-> {}, stargazers_count |-> 0, archived |-> FALSE]

\* mutant: the records are kept in memory, nothing reaches the files
write_software_yaml_deferred(j, rec) == [ok |-> disk, failed |-> {disk}]

\* write_software_yaml: the file is opened with 'w+' (truncated) and dumped
\* into; open() may raise (file untouched) and yaml.dump may raise (file
\* left truncated)
write_software_yaml(j, rec) ==
    [ok |-> [disk EXCEPT ![j] = rec],
     failed |-> {disk, [disk EXCEPT ![j] = Truncated(j)]}]

\* write_software_yaml inside try/except, then the next loop iteration
WriteAndContinue(f2, j, sw2, err) ==
    /\ software' = sw2
    /\ stack' = Append(Front(stack), f2)
    /\ \/ /\ disk' = write_software_yaml(j, sw2[j]).ok
          /\ events' = Append(events, WriteEv(j, f2.label))
          /\ UNCHANGED <<errors, anomalies>>
       \/ /\ anomalies < MaxAnomalies
          /\ anomalies' = anomalies + 1
          /\ errors' = Append(errors, err)
          /\ disk' \in write_software_yaml(j, sw2[j]).failed
          /\ UNCHANGED events
    /\ UNCHANGED <<counter, pc, provider>>

\* mutant: an entry that is skipped ends the loop over the response
SkipEntryEndsLoop(f2, errs) ==
    /\ stack' = Append(Front(stack), [f2 EXCEPT !.k = Max(Len(f2.resp), Len(f2.batch)) + 1])
    /\ errors' = errs
    /\ UNCHANGED <<software, disk, events, anomalies, counter, pc, provider>>

\* `continue`: the entry is left, the loop goes on with the next one
SkipEntry(f2, errs) ==
    /\ stack' = Append(Front(stack), f2)
    /\ errors' = errs
    /\ UNCHANGED <<software, disk, events, anomalies, counter, pc, provider>>

\* process_github_batch: one iteration of the loop over the response edges
ReconcileGithub ==
    /\ pc = "run" /\ provider = "github"
    /\ stack # <<>>
    /\ Last(stack).pc = "reconcile"
    /\ Last(stack).k <= Len(Last(stack).resp)
    /\ LET f == Last(stack)
           repo == f.resp[f.k]
           repo_identifier == extract_github_repo_identifier(repo.url)
           repo_id_lower == casefold(repo_identifier)
           j == FirstMatch("github", software, projects.github, repo_id_lower)
           fnext == [f EXCEPT !.k = f.k + 1]
           ffound == [fnext EXCEPT !.found = f.found \cup {repo_id_lower}]
       IN  IF repo_identifier = NoIdent
           THEN SkipEntry(fnext, Append(errors, Err("NoExtract", <<>>, NoIdent, repo.url, 0)))
           ELSE IF j = 0
           THEN SkipEntry(ffound, Append(errors, Err("NoSoftware", <<>>, NoIdent, repo.url, 0)))
           ELSE IF ~repo.wellformed
           THEN /\ software' = [software EXCEPT ![j] = ApplyPartial(@, repo_identifier.name)]
                /\ Raise(stack, errors, Append(events, RaiseEv(f.label)))
                /\ UNCHANGED <<disk, anomalies>>
           ELSE WriteAndContinue(ffound, j,
                    [software EXCEPT ![j] = ApplyEntry(@, repo_identifier.name)],
                    Err("WriteFailed", <<>>, NoIdent, repo.url, 0))
    /\ UNCHANGED <<aux, cfg, environ, projects, batches>>

\* response_data.get(alias): the entry answered under the alias, if any
ProjectData(resp, alias) ==
    LET hits == {i \in 1..Len(resp) : generate_gitlab_alias(resp[i].ident) = alias} IN
    IF hits = {} THEN 0 ELSE CHOOSE i \in hits : \A h \in hits : i <= h

\* process_gitlab_batch: one iteration of the loop over the batch
ReconcileGitlab ==
    /\ pc = "run" /\ provider = "gitlab"
    /\ stack # <<>>
    /\ Last(stack).pc = "reconcile"
    /\ Last(stack).k <= Len(Last(stack).batch)
    /\ LET f == Last(stack)
           repo_path == f.batch[f.k]
           d == ProjectData(f.resp, generate_gitlab_alias(repo_path))
           j == FirstMatch("gitlab", software, projects.gitlab, repo_path)
           fnext == [f EXCEPT !.k = f.k + 1]
           ffound == [fnext EXCEPT !.found = f.found \cup {repo_path}]
       IN  IF d = 0
           THEN SkipEntry(fnext, errors)
           ELSE IF j = 0
           THEN SkipEntry(fnext, Append(errors,
                    Err("NoSoftware", <<>>, repo_path, NoUrl, 0)))
           ELSE IF ~f.resp[d].wellformed
           THEN /\ software' = [software EXCEPT ![j] = ApplyPartial(@, f.resp[d].ident.name)]
                /\ Raise(stack, errors, Append(events, RaiseEv(f.label)))
                /\ UNCHANGED <<disk, anomalies>>
           ELSE WriteAndContinue(ffound, j,
                    [software EXCEPT ![j] = ApplyEntry(@, f.resp[d].ident.name)],
                    Err("WriteFailed", <<>>, repo_path, NoUrl, 0))
    /\ UNCHANGED <<aux, cfg, environ, projects, batches>>

\* the end of process_*_batch: find_missing_repos, then return to the caller
FindMissing ==
    /\ pc = "run"
    /\ stack # <<>>
    /\ Last(stack).pc = "reconcile"
    /\ Last(stack).k > (IF provider = "github" THEN Len(Last(stack).resp)
                        ELSE Len(Last(stack).batch))
    /\ LET f == Last(stack)
           r == Return(stack, events)
       IN  \E order \in SeqsOf(missing_repos(f.batch, f.found)) :
              Resume(r.stack,
                     errors \o find_missing_repos(provider, software, projects[provider], order),
                     r.events)
    /\ UNCHANGED <<aux, cfg, environ, software, disk, projects, batches, anomalies>>

\* the end of software_metadata(): print the errors, exit
Exit ==
    /\ pc = "finish"
    /\ pc' = IF errors # <<>> THEN "exit1" ELSE "exit0"
    /\ UNCHANGED <<aux, cfg, environ, software, disk, provider, projects, batches, counter, stack,
                   errors, events, anomalies>>

Next ==
    \/ software_metadata
    \/ add_github_metadata
    \/ add_gitlab_metadata
    \/ Post
    \/ ReconcileGithub
    \/ ReconcileGitlab
    \/ FindMissing
    \/ Exit

Spec == Init /\ [][Next]_vars

Terminated == pc \in {"exit0", "exit1", "crashed"}

-----------------------------------------------------------------------------
(* Reading the history *)

IsPrefix(a, b) == Len(a) <= Len(b) /\ SubSeq(b, 1, Len(a)) = a

\* the events of one provider's pass
EventsOf(prov) ==
    LET starts == {i \in 1..Len(events) : events[i] = StartEv(prov)} IN
    IF starts = {} THEN <<>>
    ELSE LET s0 == CHOOSE i \in starts : TRUE
             later == {i \in (s0 + 1)..Len(events) : events[i].type = "provider"}
             e0 == IF later = {} THEN Len(events) ELSE (CHOOSE i \in later : TRUE) - 1
         IN  SubSeq(events, s0 + 1, e0)

\* the events of top-level batch k of a provider, its chunks included
BatchEvents(prov, k) ==
    SelectSeq(EventsOf(prov), LAMBDA e : e.label # <<>> /\ e.label[1] = k)

Requests(evs) == SelectSeq(evs, LAMBDA e : e.type = "req")
Sleeps(evs, kind) == SelectSeq(evs, LAMBDA e : e.type = "sleep" /\ e.outcome = kind)
RequestsFor(evs, label) == SelectSeq(evs, LAMBDA e : e.type = "req" /\ e.label = label)
ReqLabels(evs) == {e.label : e \in {x \in Range(evs) : x.type = "req"}}

\* top-level batch k of the provider was started and is no longer in progress
Started(prov, k) == RequestsFor(EventsOf(prov), <<k>>) # <<>>
Finished(prov, k) ==
    /\ Started(prov, k)
    /\ ~(pc = "run" /\ provider = prov /\ counter = k)
TopBatch(prov, k) == RequestsFor(EventsOf(prov), <<k>>)[1].batch

Providers == {"github", "gitlab"}
BatchNumbers == 1..MaxRecords

\* a requested batch no chunk of which was requested
IsLeaf(evs, label) ==
    /\ label \in ReqLabels(evs)
    /\ ~\E m \in ReqLabels(evs) : Len(m) = Len(label) + 1 /\ IsPrefix(label, m)

\* the leaf batches in the order of their first request
RECURSIVE LeafBatches(_, _)
LeafBatches(evs, i) ==
    IF i > Len(evs) THEN <<>>
    ELSE LET e == evs[i] IN
         IF /\ e.type = "req"
            /\ IsLeaf(evs, e.label)
            /\ \A h \in 1..(i - 1) : ~(evs[h].type = "req" /\ evs[h].label = e.label)
         THEN <<e.batch>> \o LeafBatches(evs, i + 1)
         ELSE LeafBatches(evs, i + 1)

\* no exception out of a chunk cut a split short
NoRaiseInSplit(evs) == \A e \in Range(evs) : e.type = "raise" => Len(e.label) = 1

-----------------------------------------------------------------------------
(* C1: batch splitting never loses or duplicates an identifier.  Every    *)
(* split cuts the parent batch into non-empty chunks that concatenate to  *)
(* the parent in order, each chunk is processed as cut, and at the end of *)
(* the run the leaf batches of every top-level batch (the requested       *)
(* batches that were not split), in order, concatenate to that batch.     *)
C1_SplitPartitionsBatch ==
    /\ \A i \in 1..Len(stack) :
          stack[i].pc = "split" =>
             /\ Flatten(stack[i].chunks) = stack[i].batch
             /\ \A c \in 1..Len(stack[i].chunks) : stack[i].chunks[c] # <<>>
             /\ stack[i].i \in 1..Len(stack[i].chunks)
    /\ \A i \in 2..Len(stack) :
          /\ stack[i - 1].pc = "split"
          /\ stack[i].batch = stack[i - 1].chunks[stack[i - 1].i]
    /\ Terminated =>
          \A prov \in Providers, k \in BatchNumbers :
             (Started(prov, k) /\ NoRaiseInSplit(BatchEvents(prov, k))) =>
                Flatten(LeafBatches(BatchEvents(prov, k), 1)) = TopBatch(prov, k)

\* a batch of three was split twice, down to single identifiers, and the run ended
C1_Witness ==
    /\ Terminated
    /\ \E prov \in Providers, k \in BatchNumbers :
          /\ Started(prov, k)
          /\ Len(TopBatch(prov, k)) = 3
          /\ \E m \in ReqLabels(BatchEvents(prov, k)) : Len(m) = 3
          /\ \A b \in Range(LeafBatches(BatchEvents(prov, k), 1)) : Len(b) = 1

-----------------------------------------------------------------------------
\* the run's first two requests were answered with a retryable status, every
\* later one with a complete, well-formed HTTP 200, and every write succeeded
TwoFailuresThenSuccess ==
    LET r == Requests(events) IN
    /\ anomalies = 0
    /\ Len(r) >= 3
    /\ r[1].outcome = "retryable"
    /\ r[2].outcome = "retryable"
    /\ \A i \in 3..Len(r) : r[i].outcome = "ok"

(* C2: with max_retries = 3, when the API answers a retryable status to   *)
(* the first two requests and a clean HTTP 200 afterwards, the run makes  *)
(* exactly 2 backoff sleeps, appends no error and exits 0, whatever the   *)
(* size (>= 1) of the batch.                                              *)
C2_TwoSleepsNoError ==
    (Terminated /\ cfg.max_retries = 3 /\ TwoFailuresThenSuccess) =>
        /\ Len(Sleeps(events, "backoff")) = 2
        /\ errors = <<>>
        /\ pc = "exit0"

-----------------------------------------------------------------------------
(* C3: an exception raised by the HTTP POST is handled like a retryable   *)
(* status: while attempt <= max_retries the controller sleeps (backoff)   *)
(* and requests the batch again, and records no error for it.             *)
C3_ExceptionIsRetried ==
    \A i \in 1..Len(events) :
       (/\ events[i].type = "req"
        /\ events[i].outcome = "exception"
        /\ events[i].attempt <= cfg.max_retries) =>
          /\ i < Len(events)
          /\ events[i + 1].type = "sleep"
          /\ events[i + 1].outcome = "backoff"
          /\ \A e \in Range(errors) : e.kind # "BatchException"

-----------------------------------------------------------------------------
\* Every request whose batch contains x was answered with a retryable status,
\* every other one with a complete, well-formed HTTP 200; every write succeeded
OnlyRequestsWithFail(x) ==
    /\ anomalies = 0
    /\ \A e \in Range(Requests(events)) :
          e.outcome = IF x \in Range(e.batch) THEN "retryable" ELSE "ok"

\* x belongs to a top-level batch of at least two identifiers
InMultiBatch(x) ==
    \E prov \in Providers, k \in BatchNumbers :
       /\ Started(prov, k)
       /\ x \in Range(TopBatch(prov, k))
       /\ Len(TopBatch(prov, k)) >= 2

\* the file of record j holds the values the API reports for repository n
Persisted(j, n) ==
    /\ {"stargazers_count", "archived"} \subseteq disk[j].has
    /\ disk[j].stargazers_count = RemoteStars(n)
    /\ disk[j].archived = RemoteArchived(n)

\* the queue of a provider, and the queued records whose URL names repository n
\* (letter case and a trailing slash are not part of the name)
QueueOf(prov) == projects[prov]
RecordsOf(prov, n) == {j \in Range(QueueOf(prov)) : software[j].url.name = n}
FirstRecordOf(prov, n) == CHOOSE j \in RecordsOf(prov, n) : \A h \in RecordsOf(prov, n) : j <= h

AllIdents == {Ident(n, FALSE) : n \in Names}

\* only x is reported as failed: every error is the per-repository failure
\* of x or the anonymous 'No data received' of a batch that holds only x
OnlyFailureOf(x) ==
    /\ \E e \in Range(errors) : e.kind = "FailedRepo" /\ e.ident = x
    /\ \A e \in Range(errors) :
          \/ e.kind = "FailedRepo" /\ e.ident = x
          \/ e.kind = "NoData"

-----------------------------------------------------------------------------
\* the provider whose pass event i belongs to
ProviderAt(i) ==
    LET starts == {h \in 1..i : events[h].type = "provider"} IN
    IF starts = {} THEN "none"
    ELSE events[CHOOSE h \in starts : \A g \in starts : g <= h].outcome

\* events i and j belong to the same provider's pass
SamePass(i, j) == \A h \in (Min(i, j) + 1)..Max(i, j) : events[h].type # "provider"

(* C5: a single-identifier batch whose every request fails with a         *)
(* retryable status gets at most max_retries + 1 requests, and once it is *)
(* given up the error list holds a failure message naming the identifier. *)
C5_SingleFailureNamesRepository ==
    \A prov \in Providers, k \in BatchNumbers :
       (/\ Finished(prov, k)
        /\ Len(TopBatch(prov, k)) = 1
        /\ \A e \in Range(Requests(BatchEvents(prov, k))) : e.outcome = "retryable") =>
          /\ Len(Requests(BatchEvents(prov, k))) <= cfg.max_retries + 1
          /\ \E e \in Range(errors) :
                e.kind = "FailedRepo" /\ e.ident = TopBatch(prov, k)[1]

-----------------------------------------------------------------------------
\* the top-level batches of a provider, as add_*_metadata plans them
BatchesOf(prov) == PlanBatches(Repos(prov, software, QueueOf(prov)), cfg.batch_size)

(* C6: a status that is neither 200 nor retryable ends the batch at once. *)
(* The request is the last one for the batch, no backoff sleep follows    *)
(* it, an error naming the batch is recorded, no record is written for    *)
(* the batch, and the next batch of the provider is still requested.      *)
C6_NonRetryableEndsBatchOnly ==
    \A i \in 1..Len(events) :
       (events[i].type = "req" /\ events[i].outcome = "nonretryable") =>
          LET e == events[i] IN
          /\ \A j \in (i + 1)..Len(events) :
                ~(events[j].type = "req" /\ events[j].label = e.label /\ SamePass(i, j))
          /\ i < Len(events) => ~(events[i + 1].type = "sleep" /\ events[i + 1].outcome = "backoff")
          /\ \E r \in Range(errors) : r.kind = "RespCode" /\ r.label = e.label
          /\ \A j \in 1..Len(events) :
                ~(events[j].type = "write" /\ events[j].label = e.label /\ SamePass(i, j))
          /\ (Terminated /\ e.label[1] < Len(BatchesOf(ProviderAt(i)))) =>
                Started(ProviderAt(i), e.label[1] + 1)

\* a non-retryable status at the second attempt of batch 1; batch 2 was run
C6_Witness ==
    /\ Terminated
    /\ \E i \in 1..Len(events) :
          /\ events[i].type = "req" /\ events[i].outcome = "nonretryable"
          /\ events[i].label = <<1>> /\ events[i].attempt = 2
          /\ Len(events[i].batch) >= 2
          /\ Started(ProviderAt(i), 2)

-----------------------------------------------------------------------------
(* C7: GraphQL errors in the HTTP 200 answer to a whole multi-identifier  *)
(* batch abort the run: no request is issued after it and the process     *)
(* exits non-zero.                                                        *)
C7_GraphQLErrorsAbortRun ==
    \A i \in 1..Len(events) :
       (/\ events[i].type = "req" /\ events[i].outcome = "gqlerrors"
        /\ Len(events[i].label) = 1 /\ Len(events[i].batch) >= 2) =>
          /\ \A j \in (i + 1)..Len(events) : events[j].type # "req"
          /\ Terminated => pc = "exit1"

-----------------------------------------------------------------------------
\* the innermost frame has applied the whole response: find_missing_repos is next
AtFindMissing ==
    /\ pc = "run"
    /\ stack # <<>>
    /\ Last(stack).pc = "reconcile"
    /\ Last(stack).k > (IF provider = "github" THEN Len(Last(stack).resp)
                        ELSE Len(Last(stack).batch))

\* the identifiers find_missing_repos reports in the step
ReportedMissing ==
    {e.ident : e \in {r \in Range(SubSeq(errors', Len(errors) + 1, Len(errors'))) :
                         r.kind = "NotFound"}}

\* the lower-case identifiers of the entries of a GitHub response
EntryIdents(prov, resp) ==
    IF prov = "github"
    THEN {Ident(x.url.name, FALSE) : x \in {y \in Range(resp) : y.url.host = "github"}}
    ELSE {}

(* C8, as claimed: for every answered batch the identifiers marked found  *)
(* and those reported missing are disjoint and their union is exactly the *)
(* set of identifiers requested.                                          *)
C8_DiffEqualsRequested ==
    [][AtFindMissing =>
          /\ Last(stack).found \cap ReportedMissing = {}
          /\ Last(stack).found \cup ReportedMissing = Range(Last(stack).batch)]_vars

(* C8, amended: found and missing are disjoint, every missing identifier  *)
(* was requested, and their union is the set of requested identifiers     *)
(* together with the lower-case identifiers of the entries of a GitHub    *)
(* response; it is exactly the requested set for GitLab, and for GitHub   *)
(* when every entry of the response names a requested identifier.         *)
C8_DiffCoversRequested ==
    [][AtFindMissing =>
          /\ Last(stack).found \cap ReportedMissing = {}
          /\ ReportedMissing \subseteq Range(Last(stack).batch)
          /\ Last(stack).found \cup ReportedMissing =
                Range(Last(stack).batch) \cup EntryIdents(provider, Last(stack).resp)
          /\ (EntryIdents(provider, Last(stack).resp) \subseteq Range(Last(stack).batch)) =>
                Last(stack).found \cup ReportedMissing = Range(Last(stack).batch)]_vars

\* a GitHub batch of two, answered with an unrequested entry, is about to be diffed
C8_Witness ==
    /\ AtFindMissing
    /\ provider = "github"
    /\ Len(Last(stack).batch) >= 2
    /\ ~(Last(stack).found \subseteq Range(Last(stack).batch))
    /\ Last(stack).found \cap Range(Last(stack).batch) # {}

-----------------------------------------------------------------------------
\* request i was answered with data and its reconciliation ran to the end
OkDone(i) ==
    /\ events[i].type = "req"
    /\ events[i].outcome = "ok"
    /\ ~\E j \in (i + 1)..Len(events) :
          /\ events[j].type = "raise"
          /\ events[j].label = events[i].label
          /\ \A h \in (i + 1)..(j - 1) : events[h].type = "write"

\* the requested identifiers the response to request i has an entry for
Answered(i) ==
    IF ProviderAt(i) = "github"
    THEN {b \in Range(events[i].batch) :
            \E x \in Range(events[i].resp) : x.url.host = "github" /\ x.url.name = b.name}
    ELSE {b \in Range(events[i].batch) :
            \E x \in Range(events[i].resp) : x.ident.name = b.name}

\* the source_code_url of the first queued record of the repository
OriginalUrl(prov, ident) == software[FirstRecordOf(prov, ident.name)].url

\* the answered requests of a provider in which ident was requested but not returned
MissedIn(prov, ident) ==
    {i \in 1..Len(events) :
        /\ OkDone(i) /\ ProviderAt(i) = prov
        /\ ident \in Range(events[i].batch) \ Answered(i)}

NotFoundErrors(prov, ident) ==
    {h \in 1..Len(errors) :
        /\ errors[h].kind = "NotFound"
        /\ errors[h].ident = ident
        /\ errors[h].url.host = prov}

(* C9: at the end of the run there is exactly one 'Repository not found   *)
(* in search results' error for each identifier of each answered batch    *)
(* whose response has no entry for it, and each such error names the      *)
(* original source_code_url of the identifier's record.                   *)
C9_OneNotFoundPerMissing ==
    Terminated =>
       /\ \A prov \in Providers, x \in AllIdents :
             Cardinality(NotFoundErrors(prov, x)) = Cardinality(MissedIn(prov, x))
       /\ \A h \in 1..Len(errors) :
             errors[h].kind = "NotFound" =>
                /\ errors[h].ident \in AllIdents
                /\ errors[h].url = OriginalUrl(errors[h].url.host, errors[h].ident)

\* one of two identifiers returned; the error names the record's own spelling
C9_Witness ==
    /\ Terminated
    /\ \E i \in 1..Len(events) :
          /\ OkDone(i)
          /\ Cardinality(Range(events[i].batch)) = 2
          /\ Cardinality(Answered(i)) = 1
    /\ Cardinality({h \in 1..Len(errors) : errors[h].kind = "NotFound"}) = 1
    /\ \E h \in 1..Len(errors) :
          errors[h].kind = "NotFound" /\ (errors[h].url.slash \/ errors[h].url.upper)

-----------------------------------------------------------------------------
(* C10: after the reconciliation of a response, every queued record whose *)
(* source_code_url matches an entry of it, letter case and a trailing     *)
(* slash aside, holds the entry's stargazers_count and archived and has   *)
(* been written to its file.                                              *)
C10_EveryMatchingRecordUpdated ==
    (Terminated /\ \A e \in Range(errors) : e.kind # "WriteFailed") =>
       \A i \in 1..Len(events) : OkDone(i) =>
          \A b \in Answered(i) : \A j \in RecordsOf(ProviderAt(i), b.name) :
             Persisted(j, b.name)

-----------------------------------------------------------------------------
(* C11: the run exits with status 0 if and only if no error was           *)
(* accumulated; with a non-empty error list it ends in the final print    *)
(* and exit 1 of software_metadata().                                     *)
C11_ExitZeroIffNoError ==
    Terminated =>
       /\ pc = "exit0" <=> errors = <<>>
       /\ errors # <<>> => pc = "exit1"

-----------------------------------------------------------------------------
\* some batch failed in a way that is collected: a status, an exception of
\* the POST, GraphQL errors, a missing or unmatched entry, a failed write
CollectedFailure ==
    \E e \in Range(errors) :
       e.kind \in {"FailedRepo", "FailedFor", "GraphQLFailed", "RespCode", "BatchException",
                   "GqlMessage", "NotFound", "NoSoftware", "NoExtract", "WriteFailed"}

(* C12: err-by-end.  Unless an exception escapes process_*_batch at top   *)
(* level, a run ends in the final exit of software_metadata() with every  *)
(* top-level batch of both providers requested, whatever failures were    *)
(* collected on the way.                                                  *)
C12_EveryBatchRequested ==
    (Terminated /\ pc # "crashed") =>
       /\ pc \in {"exit0", "exit1"}
       /\ \A prov \in Providers : \A k \in 1..Len(BatchesOf(prov)) : Started(prov, k)

\* a GitHub batch of two failed for good, yet the next GitHub batch (if any)
\* and the GitLab batch were requested
C12_Witness ==
    /\ Terminated /\ pc = "exit1"
    /\ CollectedFailure
    /\ Len(BatchesOf("github")) >= 1 /\ Len(BatchesOf("gitlab")) >= 1
    /\ Len(TopBatch("github", 1)) = 2
    /\ \E i \in 1..Len(events) :
          /\ events[i].type = "req" /\ events[i].label = <<1>>
          /\ events[i].outcome \in {"nonretryable", "exception", "gqlerrors"}
          /\ ProviderAt(i) = "github"
    /\ Started("gitlab", 1)

-----------------------------------------------------------------------------
(* C13: a provider whose token variable is not set is skipped: no request *)
(* is sent to it, no error is accumulated for it and none of its records  *)
(* is written; the other provider is still processed.                     *)
C13_MissingTokenSkipsProvider ==
    /\ \A i \in 1..Len(events) :
          events[i].type \in {"req", "write"} => ProviderAt(i) \in environ
    /\ environ = {} => errors = <<>>
    /\ \A prov \in Providers :
          (Terminated /\ prov \in environ /\ pc # "crashed") =>
             \A k \in 1..Len(BatchesOf(prov)) : Started(prov, k)

-----------------------------------------------------------------------------
\* the file of record j holds a complete record: the one loaded or an updated one
CompleteFile(j) ==
    /\ disk[j].name = j
    /\ disk[j].url # NoUrl

(* C14: record writes are atomic: at every point of a run, a failed write *)
(* included, every record file holds a complete record (the previous or   *)
(* the new content), never an empty or truncated one.                     *)
C14_WritesAreAtomic ==
    \A j \in 1..Len(disk) : CompleteFile(j)

-----------------------------------------------------------------------------
(* C15: checkpointing.  A record is written as soon as it is reconciled:  *)
(* at every point of a run the file of every record holds the record as   *)
(* it is in memory (unless a write failed or an entry raised while it was *)
(* applied), and every write follows the request that brought the entry   *)
(* with nothing but the writes of earlier entries of the same response in *)
(* between.                                                               *)
C15_WrittenWhenReconciled ==
    /\ (/\ \A e \in Range(errors) : e.kind # "WriteFailed"
        /\ \A e \in Range(events) : e.type # "raise") =>
          \A j \in 1..Len(software) : disk[j] = software[j]
    /\ \A i \in 1..Len(events) :
          events[i].type = "write" =>
             /\ i > 1
             /\ events[i - 1].type \in {"req", "write"}
             /\ events[i - 1].label = events[i].label

\* in the middle of a response: the first entry's record is on disk, the
\* second entry is still to be applied
C15_Witness ==
    /\ pc = "run"
    /\ stack # <<>>
    /\ Last(stack).pc = "reconcile"
    /\ Last(stack).k = 2
    /\ Len(Last(stack).resp) = 2
    /\ \E j \in 1..Len(software) :
          /\ "archived" \in software[j].has
          /\ Persisted(j, software[j].url.name)
    /\ \E j \in 1..Len(software) : software[j].has = {} /\ disk[j].has = {}

-----------------------------------------------------------------------------
(***************************************************************************)
(* StoreSpec: the record store as files.  load_yaml_data reads every file  *)
(* of source_directory/software; write_software_yaml derives the file to   *)
(* write from the record's name.  Strings are sequences of characters.     *)
(***************************************************************************)
MaxNameLen == 2
MaxFiles == 2

\* the characters of record names: a lower-case and an upper-case letter, a
\* space (translated to '-') and a slash (removed)
NameChars == {"a", "B", " ", "/"}
RecordNames == UNION {[1..k -> NameChars] : k \in 1..MaxNameLen}

\* str.lower()
lower(c) == IF c = "B" THEN "b" ELSE c

\* to_kebab_case: string.translate(str.maketrans(replacements)).lower()
RECURSIVE to_kebab_case(_)
to_kebab_case(string) ==
    IF string = <<>> THEN <<>>
    ELSE LET c == Head(string) IN
         (IF c \in {" ", ":"} THEN <<"-">>
          ELSE IF c \in {"(", ")", "&", "/", ",", "*"} THEN <<>>
          ELSE <<lower(c)>>) \o to_kebab_case(Tail(string))

\* mutant: the file is named after the name as it is
dest_file_verbatim(name) == name

\* write_software_yaml: dest_file, without directory and '.yml'
dest_file(name) == to_kebab_case(name)

\* code points, for sorted()
Rank(c) ==
    CASE c = " " -> 32 [] c = "-" -> 45 [] c = "." -> 46 [] c = "/" -> 47
      [] c = "B" -> 66 [] c = "a" -> 97 [] c = "b" -> 98 [] OTHER -> 0

\* s < t for Python strings
RECURSIVE StrLess(_, _)
StrLess(s, t) ==
    IF t = <<>> THEN FALSE
    ELSE IF s = <<>> THEN TRUE
    ELSE IF Head(s) = Head(t) THEN StrLess(Tail(s), Tail(t))
    ELSE Rank(Head(s)) < Rank(Head(t))

\* sorted(list_files(path)): the file names carry the suffix '.yml'
list_files(fs) ==
    CHOOSE order \in SeqsOf(DOMAIN fs) :
       \A i \in 1..(Len(order) - 1) :
          StrLess(order[i] \o <<".">>, order[i + 1] \o <<".">>)

\* a record file and the record loaded from it
FileRecord(name, stars) == [name |-> name, stargazers_count |-> stars]
LoadedRecord(rec, file) ==
    [name |-> rec.name, stargazers_count |-> rec.stargazers_count, file |-> file]
Dumped(rec) == FileRecord(rec.name, rec.stargazers_count)

\* load_yaml_data(path) for a directory: one item per file, in sorted order
load_yaml_data(fs) ==
    LET order == list_files(fs) IN
    [i \in 1..Len(order) |-> LoadedRecord(fs[order[i]], order[i])]

\* write_software_yaml seen on the directory: the destination is created or overwritten
WriteFile(fs, rec) ==
    [f \in DOMAIN fs \cup {dest_file(rec.name)} |->
        IF f = dest_file(rec.name) THEN Dumped(rec) ELSE fs[f]]

\* the file a record of the initial store lives in: the slug of its name,
\* as the importers write it, or a file name of another origin
FileKinds == {"slug", "upper", "other"}
InitialFile(name, kind) ==
    CASE kind = "slug" -> to_kebab_case(name)
      [] kind = "upper" -> <<"B">>
      [] OTHER -> <<"a", "B">>

StoreInit ==
    /\ RunIdle
    /\ AggregatorIdle /\ ExtractorIdle /\ OutageIdle /\ CheckerIdle /\ AliaserIdle
    /\ loaded = <<>>
    /\ \E n \in 1..MaxFiles : \E recs \in [1..n -> RecordNames \X FileKinds] :
          LET file(i) == InitialFile(recs[i][1], recs[i][2]) IN
          /\ \A i, j \in 1..n : file(i) = file(j) => i = j
          /\ files = [f \in {file(i) : i \in 1..n} |->
                        FileRecord(recs[CHOOSE i \in 1..n : file(i) = f][1], 0)]

\* software_list = load_yaml_data(source_directory + '/software')
StoreLoad ==
    /\ loaded = <<>>
    /\ loaded' = load_yaml_data(files)
    /\ UNCHANGED <<files, beside_store>>

\* a record is updated in memory and written by write_software_yaml
StoreWrite ==
    /\ \E i \in 1..Len(loaded) :
          /\ loaded[i].stargazers_count = 0
          /\ loaded' = [loaded EXCEPT ![i].stargazers_count = 42]
          /\ files' = WriteFile(files, loaded'[i])
    /\ UNCHANGED beside_store

StoreNext == StoreLoad \/ StoreWrite
StoreSpec == StoreInit /\ [][StoreNext]_vars

\* every record was loaded from the file its name slugs to
ConformingStore ==
    \A i \in 1..Len(loaded) : loaded[i].file = to_kebab_case(loaded[i].name)

\* as many files as records, and the file each record was loaded from holds it
OneFilePerRecord ==
    /\ Cardinality(DOMAIN files) = Len(loaded)
    /\ \A i \in 1..Len(loaded) :
          /\ loaded[i].file \in DOMAIN files
          /\ files[loaded[i].file] = Dumped(loaded[i])

(* C16, as claimed: after any run the store has as many files as before   *)
(* and every update has overwritten the file the record was loaded from.  *)
C16_OneFilePerRecord ==
    loaded # <<>> => OneFilePerRecord

(* C16, amended: the same, for a store in which every record's file is    *)
(* named after the slug of its name (to_kebab_case(name) + '.yml').       *)
C16_OneFilePerRecordInSlugStore ==
    (loaded # <<>> /\ ConformingStore) => OneFilePerRecord

\* two records whose names are not their own slugs, both updated and written
C16_Witness ==
    /\ Len(loaded) = 2
    /\ ConformingStore
    /\ \A i \in 1..2 :
          /\ loaded[i].stargazers_count = 42
          /\ loaded[i].file # loaded[i].name
          /\ files[loaded[i].file].stargazers_count = 42

-----------------------------------------------------------------------------
\* the target fields of a provider's records
TargetFields(prov) ==
    IF prov = "github"
    THEN {"stargazers_count", "updated_at", "archived", "current_release", "commit_history"}
    ELSE {"stargazers_count", "updated_at", "archived", "current_release"}

ProviderOf(j) == detect_provider(software[j].url)
Queued(j) == j \in Range(QueueOf(ProviderOf(j)))

(* C17: with metadata_only_missing set, the records queued at load time   *)
(* are exactly those missing a target field of their provider; a record   *)
(* that has them all is never queued, never requested on its own account, *)
(* never modified and its file is never rewritten.                        *)
C17_OnlyMissingQueued ==
    (cfg.metadata_only_missing /\ pc \notin {"start", "idle"}) =>
       /\ \A j \in 1..Len(software) :
             /\ pc = "github" => (Queued(j) <=> ~(TargetFields(ProviderOf(j)) \subseteq disk[j].has))
             /\ ~Queued(j) =>
                   /\ TargetFields(ProviderOf(j)) \subseteq disk[j].has
                   /\ disk[j] = software[j]
                   /\ disk[j].stargazers_count = 5
                   /\ \A e \in Range(events) : ~(e.type = "write" /\ e.rec = j)
       /\ \A i \in 1..Len(events) :
             events[i].type = "req" =>
                \A b \in Range(events[i].batch) :
                   \E j \in Range(QueueOf(ProviderAt(i))) : software[j].url.name = b.name

\* a GitLab record with its four fields was left alone, a GitHub record
\* with the same four fields was queued, updated and written
C17_Witness ==
    /\ Terminated
    /\ cfg.metadata_only_missing
    /\ \E j \in 1..Len(software) :
          /\ ProviderOf(j) = "gitlab" /\ ~Queued(j)
          /\ "commit_history" \notin disk[j].has
    /\ \E j \in 1..Len(software) :
          /\ ProviderOf(j) = "github" /\ Queued(j)
          /\ "current_release" \in disk[j].has
          /\ Persisted(j, software[j].url.name)

-----------------------------------------------------------------------------
(***************************************************************************)
(* HistorySpec: the commit-history aggregator applied to one record.  A    *)
(* year-month string 'YYYY-MM' is the sequence of its six digits; a dict   *)
(* is the sequence of its items in insertion order.                        *)
(***************************************************************************)
MaxKeep == 12

\* date.strftime('%Y-%m')
strftime(d) ==
    << d.year \div 1000, (d.year \div 100) % 10, (d.year \div 10) % 10, d.year % 10,
       d.month \div 10, d.month % 10 >>

\* date - relativedelta(months=k), up to the day of the month
relativedelta(d, k) ==
    LET t == d.year * 12 + (d.month - 1) - k IN
    [year |-> t \div 12, month |-> (t % 12) + 1]

\* s >= t for two Python strings of digits of the same length
RECURSIVE StrGeq(_, _)
StrGeq(s, t) ==
    IF s = <<>> \/ t = <<>> THEN t = <<>>
    ELSE IF Head(s) = Head(t) THEN StrGeq(Tail(s), Tail(t))
    ELSE Head(s) > Head(t)

Item(ym, count) == [ym |-> ym, count |-> count]
Keys(d) == {d[i].ym : i \in 1..Len(d)}

\* mutant: the window goes back months_to_keep months
cutoff_year_month_whole_window(now, keep) == strftime(relativedelta(now, keep))

\* cutoff_year_month: go back (N-1) months
cutoff_year_month(now, keep) == strftime(relativedelta(now, keep - 1))

\* dict(sorted(filtered_history.items())): insertion sort on the keys
RECURSIVE sorted(_)
sorted(d) ==
    IF d = <<>> THEN <<>>
    ELSE LET rest == sorted(Front(d))
             e == Last(d)
             lower_items == SelectSeq(rest, LAMBDA x : ~StrGeq(x.ym, e.ym))
             upper_items == SelectSeq(rest, LAMBDA x : StrGeq(x.ym, e.ym))
         IN  lower_items \o <<e>> \o upper_items

\* mutant: every cleanup also drops the oldest entry
cleanup_drops_oldest(history, keep, now) ==
    IF history = <<>> THEN history ELSE Tail(sorted(history))

cleanup_old_commit_history(history, keep, now) ==
    IF history = <<>> THEN history
    ELSE sorted(SelectSeq(history, LAMBDA e : StrGeq(e.ym, cutoff_year_month(now, keep))))

\* existing_history[year_month] = count
SetItem(d, ym, count) ==
    IF ym \in Keys(d)
    THEN [i \in 1..Len(d) |-> IF d[i].ym = ym THEN Item(ym, count) ELSE d[i]]
    ELSE Append(d, Item(ym, count))

RECURSIVE UpdateItems(_, _)
UpdateItems(existing, new) ==
    IF new = <<>> THEN existing
    ELSE UpdateItems(SetItem(existing, Head(new).ym, Head(new).count), Tail(new))

\* mutant: a stored month keeps its stored count
merge_keeps_stored(existing, new) ==
    IF existing # <<>>
    THEN UpdateItems(existing, SelectSeq(new, LAMBDA e : e.ym \notin Keys(existing)))
    ELSE new

\* lines 384-389: merge with the existing commit history if present
merge_commit_history(existing, new) ==
    IF existing # <<>> THEN UpdateItems(existing, new) ELSE new

\* the months a stored history may hold (ascending), and the evaluation dates
StoredMonths ==
    << [year |-> 2022, month |-> 1], [year |-> 2022, month |-> 7], [year |-> 2022, month |-> 8],
       [year |-> 2022, month |-> 12], [year |-> 2023, month |-> 6], [year |-> 2023, month |-> 7] >>
Dates == { [year |-> 2023, month |-> 7], [year |-> 2023, month |-> 1] }
MaxCount == 2

\* the stored histories: any of the months, any counts, in ascending order
Histories ==
    { SelectSeq([i \in 1..Len(StoredMonths) |-> Item(strftime(StoredMonths[i]), c[i])],
                LAMBDA e : e.count # 0) : c \in [1..Len(StoredMonths) -> 0..MaxCount] }

\* month_queries: the current month and the two before it (fetch_months = 3),
\* newest first; a month may be absent from the response
RECURSIVE Responses(_, _)
Responses(now, i) ==
    IF i = 3 THEN {<<>>}
    ELSE LET rest == Responses(now, i + 1)
             ym == strftime(relativedelta(now, i))
         IN  rest \cup {<<Item(ym, 3)>> \o r : r \in rest}


HistoryInit ==
    /\ RunIdle /\ StoreIdle /\ ExtractorIdle /\ OutageIdle /\ CheckerIdle /\ AliaserIdle
    /\ today \in Dates
    /\ months_to_keep \in 0..MaxKeep
    /\ commit_history \in Histories
    /\ before = <<>> /\ fetched = <<>> /\ merged = <<>>
    /\ op = "none"

\* cleanup_old_commit_history applied to a history, and once more to its result
HistoryCleanup ==
    /\ op = "none" \/ (op = "cleanup" /\ before # commit_history)
    /\ before' = commit_history
    /\ commit_history' = cleanup_old_commit_history(commit_history, months_to_keep, today)
    /\ op' = "cleanup"
    /\ UNCHANGED <<today, months_to_keep, fetched, merged, beside_aggregator>>

\* process_github_batch, lines 376-393: build the fetched history from the
\* response, merge it with the stored one, clean up when the result is not empty
HistoryUpdate ==
    /\ op = "none"
    /\ \E response \in Responses(today, 0) :
          /\ fetched' = response
          /\ merged' = merge_commit_history(commit_history, response)
          /\ commit_history' =
                IF merged' # <<>>
                THEN cleanup_old_commit_history(merged', months_to_keep, today)
                ELSE commit_history
    /\ before' = commit_history
    /\ op' = "update"
    /\ UNCHANGED <<today, months_to_keep, beside_aggregator>>

HistoryNext == HistoryCleanup \/ HistoryUpdate

HistorySpec == HistoryInit /\ [][HistoryNext]_vars

\* a history as a mapping, and the number of months between year 0 and a key
AsMapping(d) == {<<d[i].ym, d[i].count>> : i \in 1..Len(d)}
MonthNumber(ym) ==
    (ym[1] * 1000 + ym[2] * 100 + ym[3] * 10 + ym[4]) * 12 + (ym[5] * 10 + ym[6]) - 1
Ascending(d) == \A i, j \in 1..Len(d) : i < j => MonthNumber(d[i].ym) < MonthNumber(d[j].ym)

\* C18: a cleanup with retention N evaluated in month M keeps exactly the
\* entries whose year-month is no older than M - (N - 1) months, with their
\* counts, in ascending order, and drops every older entry.
C18_CleanupKeepsTrailingWindow ==
    op = "cleanup" =>
        /\ AsMapping(commit_history) =
              { <<before[i].ym, before[i].count>> : i \in
                  { k \in 1..Len(before) :
                      MonthNumber(before[k].ym) >=
                          (today.year * 12 + today.month - 1) - (months_to_keep - 1) } }
        /\ Ascending(commit_history)
        /\ Len(commit_history) = Cardinality(Keys(commit_history))

\* retention 12 evaluated in 2023-07: 2022-01 and 2022-07 are dropped,
\* 2022-08, 2023-06 and 2023-07 are kept
C18_Witness ==
    /\ op = "cleanup"
    /\ today = [year |-> 2023, month |-> 7] /\ months_to_keep = 12
    /\ [i \in 1..Len(before) |-> before[i].ym] =
          << <<2,0,2,2,0,1>>, <<2,0,2,2,0,7>>, <<2,0,2,2,0,8>>, <<2,0,2,3,0,6>>, <<2,0,2,3,0,7>> >>
    /\ [i \in 1..Len(commit_history) |-> commit_history[i].ym] =
          << <<2,0,2,2,0,8>>, <<2,0,2,3,0,6>>, <<2,0,2,3,0,7>> >>


\* C19: cleanup is idempotent: applying it to its own result, with the same
\* retention window and the same evaluation month, gives the same history.
C19_CleanupIdempotent ==
    op = "cleanup" =>
        cleanup_old_commit_history(commit_history, months_to_keep, today) = commit_history

\* a first cleanup that dropped some entries and kept others
C19_Witness ==
    /\ op = "cleanup"
    /\ commit_history # <<>>
    /\ Len(commit_history) < Len(before)

\* C20: after a merge each month holds the fetched count if it was fetched
\* and the stored count otherwise, every month is held once, and merging a
\* further fetch with other months gives the same mapping in either order.
C20_MergeLastWriteWins ==
    op = "update" =>
        /\ AsMapping(merged) =
              AsMapping(fetched) \cup {p \in AsMapping(before) : p[1] \notin Keys(fetched)}
        /\ Len(merged) = Cardinality(Keys(merged))
        /\ \A other \in Responses(today, 0) :
              Keys(other) \cap Keys(fetched) = {} =>
                 AsMapping(merge_commit_history(merged, other)) =
                 AsMapping(merge_commit_history(merge_commit_history(before, other), fetched))

\* a fetch that overwrote a stored month, added a new one and left another
\* stored month alone, with a month left over for a second fetch
C20_Witness ==
    /\ op = "update"
    /\ \E p \in AsMapping(before), q \in AsMapping(fetched) : p[1] = q[1] /\ p[2] # q[2]
    /\ Keys(before) \ Keys(fetched) # {}
    /\ Keys(fetched) \ Keys(before) # {}
    /\ Len(fetched) < 3


-----------------------------------------------------------------------------
(***************************************************************************)
(* ExtractSpec: the identifier extractors applied to URL strings.  A URL   *)
(* is a scheme, a host and the string of characters that follows the host; *)
(* the regular expressions are matched on that string.                     *)
(***************************************************************************)
MaxPathLen == 6

Schemes == {"https://", "http://"}
Hosts == {"github.com", "gitlab.com", "codeberg.org"}
\* a letter in lower and in upper case, the separator and a query mark
PathChars == {"b", "B", "/", "?"}
Paths == UNION {[1..k -> PathChars] : k \in 0..MaxPathLen}
GivenUrls == [scheme : Schemes, host : Hosts, path : Paths]

\* Python None (no extractor returns the empty string)
None == <<>>

\* the maximal runs of [^/] of a string, empty ones included
RECURSIVE Segments(_)
Segments(string) ==
    IF string = <<>> THEN << <<>> >>
    ELSE LET rest == Segments(Tail(string)) IN
         IF Head(string) = "/" THEN << <<>> >> \o rest
         ELSE << <<Head(string)>> \o Head(rest) >> \o Tail(rest)

\* '/'.join(segments)
RECURSIVE Join(_)
Join(segments) ==
    IF segments = <<>> THEN <<>>
    ELSE IF Len(segments) = 1 THEN Head(segments)
    ELSE Head(segments) \o <<"/">> \o Join(Tail(segments))

\* the segments after the host's slash, without the one an optional
\* trailing slash leaves empty: what \/(...)\/?$ can bind to the group
Groups(path) ==
    LET segs == Segments(path) IN
    IF Len(segs) < 2 \/ Head(segs) # <<>> THEN <<>>
    ELSE IF Len(segs) > 2 /\ Last(segs) = <<>> THEN SubSeq(segs, 2, Len(segs) - 1)
    ELSE Tail(segs)

\* re.search(r'^https?:\/\/github\.com\/([^\/]+)\/([^\/]+)\/?$', url)
github_repo_identifier(u) ==
    LET groups == Groups(u.path) IN
    IF /\ u.host = "github.com"
       /\ Len(groups) = 2
       /\ \A i \in 1..2 : groups[i] # <<>>
    THEN groups[1] \o <<"/">> \o groups[2]
    ELSE None

\* re.search(r'^https?:\/\/gitlab\.com\/([^\/]+(?:\/[^\/]+)*)\/?$', url)
gitlab_repo_identifier(u) ==
    LET groups == Groups(u.path) IN
    IF /\ u.host = "gitlab.com"
       /\ Len(groups) >= 1
       /\ \A i \in 1..Len(groups) : groups[i] # <<>>
    THEN Join(groups)
    ELSE None

\* mutant: the identifiers are compared as extracted
casefold_verbatim(string) == string

\* str.casefold() on a string of characters
casefold_string(string) == [i \in 1..Len(string) |-> lower(string[i])]

\* str.rstrip('/')
RECURSIVE rstrip(_)
rstrip(string) ==
    IF string # <<>> /\ Last(string) = "/" THEN rstrip(Front(string)) ELSE string

\* add_github_metadata, line 418:
\* re.sub('https://github.com/', '', url).rstrip('/').casefold()
github_repo(u) ==
    casefold_string(rstrip(
        IF u.scheme = "https://" /\ u.host = "github.com" /\ u.path # <<>> /\ Head(u.path) = "/"
        THEN Tail(u.path)
        ELSE <<u.scheme, u.host>> \o u.path))

\* repo_identifier.casefold(), as every comparison of identifiers spells it
repo_id_lower(ident) == casefold_string(ident)

extract_identifier(prov, u) ==
    IF prov = "github" THEN github_repo_identifier(u) ELSE gitlab_repo_identifier(u)

ExtractInit ==
    /\ RunIdle /\ StoreIdle /\ AggregatorIdle /\ OutageIdle /\ CheckerIdle /\ AliaserIdle
    /\ given_url \in GivenUrls
    /\ extracted = [prov |-> "none", ident |-> None]

ExtractGithub ==
    /\ extracted.prov = "none"
    /\ extracted' = [prov |-> "github", ident |-> github_repo_identifier(given_url)]
    /\ UNCHANGED <<given_url, beside_extractor>>

ExtractGitlab ==
    /\ extracted.prov = "none"
    /\ extracted' = [prov |-> "gitlab", ident |-> gitlab_repo_identifier(given_url)]
    /\ UNCHANGED <<given_url, beside_extractor>>

ExtractNext == ExtractGithub \/ ExtractGitlab
ExtractSpec == ExtractInit /\ [][ExtractNext]_vars

\* the shapes of a URL the contract of the extractors speaks of
HostOf(prov) == IF prov = "github" THEN "github.com" ELSE "gitlab.com"
NonEmptySegments(path) == SelectSeq(Segments(path), LAMBDA seg : seg # <<>>)
HasQuery(u) == \E i \in 1..Len(u.path) : u.path[i] = "?"
ExactShape(u, prov) ==
    LET segs == Segments(u.path) IN
    /\ u.scheme = "https://" /\ u.host = HostOf(prov)
    /\ ~HasQuery(u)
    /\ Len(segs) \in {3, 4}
    /\ segs[1] = <<>> /\ segs[2] # <<>> /\ segs[3] # <<>>
    /\ Len(segs) = 4 => segs[4] = <<>>
ExtraSegments(u) == Len(NonEmptySegments(u.path)) > 2
WrongHost(u, prov) == u.host # HostOf(prov)

\* C21: an extractor returns an identifier for every URL of the exact shape
\* https://<host>/OWNER/REPO[/], and returns None for every URL with extra
\* path segments, a query string or a wrong host.
C21_ExtractorAcceptsExactShapeOnly ==
    extracted.prov # "none" =>
        /\ ExactShape(given_url, extracted.prov) => extracted.ident # None
        /\ (ExtraSegments(given_url) \/ HasQuery(given_url) \/ WrongHost(given_url, extracted.prov))
              => extracted.ident = None


\* the URLs that differ from u only in letter case and one trailing slash
swapcase(c) == IF c = "b" THEN "B" ELSE IF c = "B" THEN "b" ELSE c
Variants(u) ==
    LET base == IF u.path # <<>> /\ Last(u.path) = "/" THEN Front(u.path) ELSE u.path IN
    { [u EXCEPT !.path = [i \in 1..Len(base) |-> IF flip[i] THEN swapcase(base[i]) ELSE base[i]]
                          \o tail] :
        flip \in [1..Len(base) -> BOOLEAN], tail \in {<<>>, <<"/">>} }

\* C22 as stated: two URLs that differ only in letter case and one trailing
\* slash yield equal extracted identifiers.
C22_ExtractedIdentifiersEqual ==
    (extracted.prov # "none" /\ extracted.ident # None) =>
        \A v \in Variants(given_url) :
            extract_identifier(extracted.prov, v) = extracted.ident

\* C22: two URLs that differ only in letter case and one trailing slash are
\* both accepted, and their identifiers are equal once case-folded, which is
\* how every comparison takes them; the GitHub batch identifier of a record
\* URL is that case-folded identifier.
C22_IdentifiersEqualAfterCasefold ==
    (extracted.prov # "none" /\ extracted.ident # None) =>
        /\ \A v \in Variants(given_url) :
              /\ extract_identifier(extracted.prov, v) # None
              /\ repo_id_lower(extract_identifier(extracted.prov, v)) =
                    repo_id_lower(extracted.ident)
        /\ (extracted.prov = "github" /\ given_url.scheme = "https://") =>
              \A v \in Variants(given_url) : github_repo(v) = repo_id_lower(extracted.ident)

\* https://github.com/B/B/ was extracted as B/B, https://github.com/b/b gives b/b
C22_Witness ==
    /\ extracted = [prov |-> "github", ident |-> <<"B", "/", "B">>]
    /\ given_url = [scheme |-> "https://", host |-> "github.com",
                    path |-> <<"/", "B", "/", "B", "/">>]
    /\ github_repo_identifier([given_url EXCEPT !.path = <<"/", "b", "/", "b">>]) =
          <<"b", "/", "b">>


-----------------------------------------------------------------------------
\* from event i on, every request that follows another request of the same
\* provider's pass comes after at least SleepTime seconds of sleep; `slept`:
\* the seconds slept since the last request, `seen`: there was one in the pass
RECURSIVE Paced(_, _, _)
Paced(i, slept, seen) ==
    IF i > Len(events) THEN TRUE
    ELSE LET e == events[i] IN
         CASE e.type = "provider" -> Paced(i + 1, 0, FALSE)
           [] e.type = "sleep"    -> Paced(i + 1, slept + e.dur, seen)
           [] e.type = "req"      -> (seen => slept >= SleepTime) /\ Paced(i + 1, 0, TRUE)
           [] OTHER               -> Paced(i + 1, slept, seen)

\* events i < j are consecutive requests of one provider's pass
ConsecutiveRequests(i, j) ==
    /\ i < j
    /\ events[i].type = "req" /\ events[j].type = "req"
    /\ \A k \in (i + 1)..(j - 1) : events[k].type \notin {"req", "provider"}

\* C23: between any two consecutive requests sent to the same provider
\* (retry, split chunk or next batch) the run sleeps at least sleep_time.
C23_PacedRequests == Paced(1, 0, FALSE)

\* a run that retried a batch, split it into chunks and went on to the next batch
C23_Witness ==
    /\ Terminated
    /\ \A kind \in {"backoff", "chunk", "batch"} : Sleeps(events, kind) # <<>>
    /\ \E i, j \in 1..Len(events) :
          ConsecutiveRequests(i, j) /\ \E k \in (i + 1)..(j - 1) : events[k].type = "write"


-----------------------------------------------------------------------------
(***************************************************************************)
(* OutageSpec: process_graphql_request called on a batch while the API     *)
(* answers every request with a retryable status.  The orchestrator calls  *)
(* it with attempt 1; the function takes any attempt.  Only the requests   *)
(* are counted; the calls still to run are kept as a stack.                *)
(***************************************************************************)
MaxBatch == 16

Call(batch, attempt) == [batch |-> batch, attempt |-> attempt]

OutageInit ==
    /\ RunIdle /\ StoreIdle /\ AggregatorIdle /\ ExtractorIdle /\ CheckerIdle /\ AliaserIdle
    /\ retries \in 0..MaxRetriesBound
    /\ \E n \in 1..MaxBatch : top_batch = [i \in 1..n |-> i]
    /\ first_attempt \in 1..MaxRetriesBound
    /\ pending = <<Call(top_batch, first_attempt)>>
    /\ sent = 0

\* one request, answered 502/503/504/429, and what lines 147-203 do next
FailedRequest ==
    /\ pending # <<>>
    /\ sent' = sent + 1
    /\ LET call == Head(pending)
           later == Tail(pending)
       IN  pending' =
             IF call.attempt <= retries
             THEN IF call.attempt = 1
                  THEN <<Call(call.batch, 2)>> \o later
                  ELSE IF Len(call.batch) > 1
                  THEN LET chunks == split_batches(call.batch, call.attempt) IN
                       [i \in 1..Len(chunks) |-> Call(chunks[i], call.attempt)] \o later
                  ELSE IF call.attempt < retries
                  THEN <<Call(call.batch, call.attempt + 1)>> \o later
                  ELSE later
             ELSE later
    /\ UNCHANGED <<retries, top_batch, first_attempt, beside_outage>>

OutageNext == FailedRequest
OutageSpec == OutageInit /\ [][OutageNext]_vars

\* the smallest k with 2^k >= n
RECURSIVE CeilLog2(_)
CeilLog2(n) == IF n <= 1 THEN 0 ELSE 1 + CeilLog2((n + 1) \div 2)

\* C24 as stated, with the constant c = max_retries + 1: the requests for a
\* batch of n identifiers exceed the one failure-free request by at most
\* c * (log2 n + 1).
C24_LogarithmicAmplification ==
    first_attempt = 1 => sent - 1 <= (retries + 1) * (CeilLog2(Len(top_batch)) + 1)

\* C24: during an outage a top-level batch of n identifiers costs exactly
\* n * max_retries requests when max_retries >= 2 (max_retries + 1 requests
\* otherwise): the amplification is linear in n.
C24_LinearAmplification ==
    first_attempt = 1 =>
    /\ sent <= Max(retries + 1, Len(top_batch) * retries)
    /\ pending = <<>> =>
          sent = IF retries < 2 THEN retries + 1 ELSE Len(top_batch) * retries

\* a batch of MaxBatch identifiers was given up after MaxBatch * 3 requests
C24_Witness ==
    /\ first_attempt = 1
    /\ pending = <<>>
    /\ retries = 3
    /\ Len(top_batch) = MaxBatch
    /\ sent = 3 * MaxBatch


-----------------------------------------------------------------------------
(***************************************************************************)
(* UrlCheckSpec: runs of the url_check processor, one after the other,     *)
(* over the same failed-URLs file.  The file is the list of its lines: a   *)
(* URL, then the count of its failures as a decimal string.                *)
(***************************************************************************)
MaxLimit == 3
MaxStreak == 4
MaxData == 2

\* the URLs of the data: two well-formed ones and one requests rejects
CheckedUrls == {"https://a.example", "https://b.example"}
InvalidUrl == "htp:/bad"
\* what requests.get does for a URL: a status in VALID_HTTP_CODES, another
\* status, a ConnectionError / ReadTimeout, InvalidURL / InvalidSchema
Outcomes(u) == IF u = InvalidUrl THEN {"invalid"} ELSE {"valid", "http", "connection"}

\* str(count) and int(line) on the counts the model reaches
Decimal == <<"1", "2", "3", "4", "5", "6">>
str(count) == Decimal[count]
int(line) == CHOOSE n \in 1..Len(Decimal) : Decimal[n] = line

\* failed_urls.index(url)
index(lines, u) == CHOOSE i \in 1..Len(lines) : lines[i] = u /\ \A h \in 1..(i - 1) : lines[h] # u

\* should_escalate(url, failed_urls_file, escalation_limit)
should_escalate(u, file, escalation_limit) ==
    /\ file.exists
    /\ u \in Range(file.lines)
    /\ int(file.lines[index(file.lines, u) + 1]) >= escalation_limit

\* handle_failed_url: the file it writes, and whether it logs the error
\* 'URL reached the escalation limit'
handle_failed_url(u, file, escalation_limit) ==
    IF file.exists /\ u \in Range(file.lines)
    THEN LET i == index(file.lines, u)
             count == int(file.lines[i + 1]) + 1
         IN  [file |-> [exists |-> TRUE, lines |-> [file.lines EXCEPT ![i + 1] = str(count)]],
              error |-> count >= escalation_limit]
    ELSE [file |-> [exists |-> TRUE, lines |-> file.lines \o <<u, "1">>],
          error |-> FALSE]

\* remove_from_failed_urls(url, failed_urls_file)
remove_from_failed_urls(u, file) ==
    IF ~file.exists THEN file
    ELSE IF u \in Range(file.lines)
    THEN LET i == index(file.lines, u) IN
         [exists |-> TRUE,
          lines |-> SubSeq(file.lines, 1, i - 1) \o SubSeq(file.lines, i + 2, Len(file.lines))]
    ELSE [exists |-> TRUE, lines |-> file.lines]

UrlCheckInit ==
    /\ RunIdle /\ StoreIdle /\ AggregatorIdle /\ ExtractorIdle /\ OutageIdle /\ AliaserIdle
    /\ module_options \in [escalation_limit : 1..MaxLimit, errors_are_fatal : BOOLEAN]
    /\ failed_urls_file = [exists |-> FALSE, lines |-> <<>>]
    /\ check_run = [status |-> "idle", data |-> <<>>, checked_urls |-> {}, errors |-> <<>>,
                     error_count |-> 0]
    /\ log = <<>>
    /\ streak = [u \in CheckedUrls \cup {InvalidUrl} |-> 0]

\* check_urls(step), lines 67-86: load the data
StartCheck ==
    /\ check_run.status \in {"idle", "returned", "exit1"}
    /\ \E n \in 1..MaxData : \E data \in [1..n -> CheckedUrls \cup {InvalidUrl}] :
          check_run' = [status |-> "running", data |-> data, checked_urls |-> {},
                        errors |-> <<>>, error_count |-> 0]
    /\ log' = <<>>
    /\ UNCHANGED <<module_options, failed_urls_file, streak, beside_checker>>

\* one iteration of the loop of check_urls over a URL already seen to fail
SkipChecked ==
    /\ check_run.status = "running"
    /\ check_run.data # <<>>
    /\ Head(check_run.data) \in check_run.checked_urls
    /\ check_run' = [check_run EXCEPT !.data = Tail(@)]
    /\ UNCHANGED <<module_options, failed_urls_file, log, streak, beside_checker>>

\* one iteration of the loop of check_urls: check_return_code and what follows
CheckUrl ==
    /\ check_run.status = "running"
    /\ check_run.data # <<>>
    /\ Head(check_run.data) \notin check_run.checked_urls
    /\ LET u == Head(check_run.data)
           limit == module_options.escalation_limit
           failed == [check_run EXCEPT !.data = Tail(@), !.checked_urls = @ \cup {u},
                                       !.error_count = @ + 1]
           handled == handle_failed_url(u, failed_urls_file, limit)
           Report(level) == Append(log, [url |-> u, k |-> streak[u] + 1, level |-> level])
       IN  \E outcome \in Outcomes(u) :
             CASE outcome = "valid" ->
                    /\ check_run' = [check_run EXCEPT !.data = Tail(@)]
                    /\ failed_urls_file' = remove_from_failed_urls(u, failed_urls_file)
                    /\ streak' = [streak EXCEPT ![u] = 0]
                    /\ UNCHANGED log
               [] outcome = "http" ->
                    /\ streak[u] < MaxStreak
                    /\ check_run' = failed
                    /\ failed_urls_file' = handled.file
                    /\ streak' = [streak EXCEPT ![u] = @ + 1]
                    /\ log' = Report(IF handled.error THEN "error" ELSE "warning")
               [] outcome = "connection" ->
                    /\ streak[u] < MaxStreak
                    /\ check_run' = failed
                    /\ failed_urls_file' = handled.file
                    /\ streak' = [streak EXCEPT ![u] = @ + 1]
                    /\ log' = Report(IF should_escalate(u, failed_urls_file, limit) \/ handled.error
                                     THEN "error" ELSE "warning")
               [] outcome = "invalid" ->
                    /\ streak[u] < MaxStreak
                    /\ check_run' = [failed EXCEPT !.errors = Append(@, u)]
                    /\ streak' = [streak EXCEPT ![u] = @ + 1]
                    /\ log' = Report("error")
                    /\ UNCHANGED failed_urls_file
    /\ UNCHANGED <<module_options, beside_checker>>

\* the end of check_urls, lines 105-110
FinishCheck ==
    /\ check_run.status = "running"
    /\ check_run.data = <<>>
    /\ check_run' = [check_run EXCEPT !.status =
                        IF check_run.errors # <<>> /\ module_options.errors_are_fatal
                        THEN "exit1" ELSE "returned"]
    /\ UNCHANGED <<module_options, failed_urls_file, log, streak, beside_checker>>

UrlCheckNext == StartCheck \/ SkipChecked \/ CheckUrl \/ FinishCheck
UrlCheckSpec == UrlCheckInit /\ [][UrlCheckNext]_vars

\* C25: with errors_are_fatal set, a run in which at least one URL check was
\* unsuccessful ends with exit status 1.
C25_FatalOnAnyFailedCheck ==
    (/\ check_run.status \in {"returned", "exit1"}
     /\ module_options.errors_are_fatal
     /\ check_run.error_count > 0) => check_run.status = "exit1"

\* C26: the k-th consecutive failed check of a URL is reported at error
\* level if and only if k >= escalation_limit.
C26_EscalatedFromLimit ==
    \A i \in 1..Len(log) :
        log[i].level = "error" <=> log[i].k >= module_options.escalation_limit


-----------------------------------------------------------------------------
\* the requests answered with a retryable status, as positions in events
RetryableFailures == {i \in 1..Len(events) : events[i].type = "req" /\ events[i].outcome = "retryable"}
FinalErrors == SelectSeq(errors, LAMBDA e : e.kind = "GraphQLFailed")

\* C27: a retryable failure at attempt a <= max_retries is followed at once
\* by a sleep of exactly sleep_time * 2^(a-1); one at attempt a > max_retries
\* is followed by no backoff sleep and records a final error.
C27_BackoffDoublesUntilMaxRetries ==
    /\ \A i \in RetryableFailures :
          IF events[i].attempt <= cfg.max_retries
          THEN /\ i < Len(events)
               /\ events[i + 1] = SleepEv("backoff", SleepTime * 2 ^ (events[i].attempt - 1),
                                          events[i].label)
          ELSE i < Len(events) => ~(events[i + 1].type = "sleep" /\ events[i + 1].outcome = "backoff")
    /\ Len(FinalErrors) =
          Cardinality({i \in RetryableFailures : events[i].attempt > cfg.max_retries})
    /\ Len(Sleeps(events, "backoff")) =
          Cardinality({i \in RetryableFailures : events[i].attempt <= cfg.max_retries})

\* a single repository slept 1, 2 and 4 seconds at attempts 1, 2 and 3, and in
\* another batch of the run a first failure was followed by a success
C27_Witness ==
    /\ Terminated
    /\ cfg.max_retries = 3
    /\ \E i \in RetryableFailures :
          /\ events[i].attempt = 3 /\ events[i + 1].dur = 4 * SleepTime
          /\ \E h \in RetryableFailures : events[h].label = events[i].label /\ events[h].attempt = 2
    /\ \E i \in RetryableFailures :
          /\ events[i].attempt = 1 /\ i + 2 <= Len(events)
          /\ events[i + 2].type = "req" /\ events[i + 2].outcome = "ok"


-----------------------------------------------------------------------------
\* the requests of the provider pass that event j belongs to, before j
PassBefore(j) ==
    {h \in 1..(j - 1) : events[h].type = "req"
                        /\ \A m \in h..j : events[m].type # "provider"}

\* C28: after the first retryable failure of a batch (attempt 1, max_retries
\* >= 1) the next request carries the same identifiers in the same order, and
\* a chunk is requested only after the full batch failed at attempts 1 and 2.
C28_FirstRetryUnchanged ==
    /\ \A i \in RetryableFailures :
          (events[i].attempt = 1 /\ cfg.max_retries >= 1) =>
             /\ i + 2 <= Len(events) => /\ events[i + 2].type = "req"
                                        /\ events[i + 2].batch = events[i].batch
                                        /\ events[i + 2].label = events[i].label
                                        /\ events[i + 2].attempt = 2
             /\ i + 2 > Len(events) => /\ stack # <<>>
                                       /\ Last(stack).batch = events[i].batch
                                       /\ Last(stack).pc = "request"
    /\ \A j \in 1..Len(events) :
          (events[j].type = "req" /\ Len(events[j].label) > 1) =>
             \E h1, h2 \in PassBefore(j) \cap RetryableFailures :
                /\ h1 < h2
                /\ events[h1].label = <<events[j].label[1]>> /\ events[h1].attempt = 1
                /\ events[h2].label = <<events[j].label[1]>> /\ events[h2].attempt = 2
                /\ events[h1].batch = events[h2].batch

\* a batch of two failed twice unchanged, then was split; the first failure
\* of another batch was followed by a successful retry of the same batch
C28_Witness ==
    /\ \E j \in 1..Len(events) :
          /\ events[j].type = "req" /\ Len(events[j].label) > 1
          /\ \E h \in PassBefore(j) : events[h].attempt = 2 /\ Len(events[h].batch) = 2
    /\ \E i \in RetryableFailures :
          /\ events[i].attempt = 1 /\ i + 2 <= Len(events)
          /\ events[i + 2].outcome = "ok"


\* C29: a retryable failure at attempt a (2 <= a <= max_retries) on a batch
\* of n > 1 identifiers splits it into exactly min(2^(a-1), n) non-empty
\* chunks whose sizes differ by at most 1, each processed with attempt a.
C29_SplitInNearEqualChunks ==
    (/\ sent = 1
     /\ first_attempt >= 2 /\ first_attempt <= retries
     /\ Len(top_batch) > 1) =>
        /\ Len(pending) = Min(2 ^ (first_attempt - 1), Len(top_batch))
        /\ Flatten([i \in 1..Len(pending) |-> pending[i].batch]) = top_batch
        /\ \A i \in 1..Len(pending) :
              /\ pending[i].batch # <<>>
              /\ pending[i].attempt = first_attempt
        /\ \A i, j \in 1..Len(pending) :
              Len(pending[i].batch) - Len(pending[j].batch) <= 1


-----------------------------------------------------------------------------
\* the batches of a provider's pass that were handled via split: a chunk of
\* theirs was requested
SplitLabels(prov) == {Front(l) : l \in {m \in ReqLabels(EventsOf(prov)) : Len(m) > 1}}

\* request i left its own process_*_batch without data
EndsWithoutData(i) ==
    /\ events[i].type = "req"
    /\ \/ events[i].outcome \in {"nonretryable", "gqlerrors", "exception"}
       \/ /\ events[i].outcome = "retryable"
          /\ \/ events[i].attempt > cfg.max_retries
             \/ /\ Len(events[i].batch) = 1
                /\ events[i].attempt >= 2
                /\ events[i].attempt = cfg.max_retries

\* C30: a batch handled via split is not reprocessed by its caller: no write
\* belongs to it, every 'No data received' error belongs to a request that
\* itself ended without data, and the missing repositories reported are those
\* of the answered requests.
C30_SplitParentNotReprocessed ==
    /\ \A prov \in Providers : \A e \in Range(EventsOf(prov)) :
          e.type = "write" => e.label \notin SplitLabels(prov)
    /\ Len(SelectSeq(errors, LAMBDA e : e.kind = "NoData")) =
          Cardinality({i \in 1..Len(events) : EndsWithoutData(i)})
    /\ Terminated =>
          \A prov \in Providers, ident \in AllIdents :
             Cardinality(NotFoundErrors(prov, ident)) = Cardinality(MissedIn(prov, ident))

-----------------------------------------------------------------------------
\* the response entry the reconciliation loop of the innermost frame is at
EntryAt == Last(stack).resp[Last(stack).k]

\* the loop of process_github_batch is at an entry whose URL names a
\* repository that no record of the queue has as its source_code_url
UnmatchedEntry ==
    /\ pc = "run" /\ provider = "github"
    /\ stack # <<>>
    /\ Last(stack).pc = "reconcile"
    /\ Last(stack).k <= Len(Last(stack).resp)
    /\ EntryAt.url.host = "github" /\ EntryAt.url.name # ""
    /\ RecordsOf("github", EntryAt.url.name) = {}

\* the 'could not find software entry' errors
NoSoftwareErrors == SelectSeq(errors, LAMBDA e : e.kind = "NoSoftware")

\* the GitHub response entries that name a repository no queued record has
Unmatched(resp) ==
    {x \in Range(resp) : /\ x.url.host = "github" /\ x.url.name # ""
                         /\ RecordsOf("github", x.url.name) = {}}

\* the write of record j failed and was reported
WriteFailedFor(j) ==
    \E e \in Range(errors) : e.kind = "WriteFailed" /\ e.url.name = software[j].url.name

\* C31: a response entry whose identifier matches no record of the queue
\* appends one 'could not find software entry' error and is skipped: no
\* record changes, no file is written, and the loop moves on to the next
\* entry of the same response.  At the end of the run the error is in the
\* list, and the records of the other entries of that response were
\* written with the reported values (or their write failed and was
\* reported), unless one of those entries raised.
C31_UnmatchedEntrySkipped ==
    /\ [][UnmatchedEntry =>
            /\ errors' = Append(errors, Err("NoSoftware", <<>>, NoIdent, EntryAt.url, 0))
            /\ software' = software
            /\ disk' = disk
            /\ events' = events
            /\ Len(stack') = Len(stack)
            /\ Last(stack').pc = "reconcile"
            /\ Last(stack').resp = Last(stack).resp
            /\ Last(stack').k = Last(stack).k + 1]_vars
    /\ [](Terminated =>
            \A i \in 1..Len(events) :
               (events[i].type = "req" /\ events[i].outcome = "ok" /\ ProviderAt(i) = "github"
                  /\ Unmatched(events[i].resp) # {} /\ OkDone(i)) =>
                  /\ \A x \in Unmatched(events[i].resp) :
                        \E e \in Range(NoSoftwareErrors) : e.url = x.url
                  /\ \A b \in Answered(i) :
                        LET j == FirstRecordOf("github", b.name) IN
                        \/ WriteFailedFor(j)
                        \/ /\ Persisted(j, b.name)
                           /\ \E h \in (i + 1)..Len(events) :
                                 /\ events[h].type = "write"
                                 /\ events[h].rec = j
                                 /\ events[h].label = events[i].label)

\* a response of three entries began with one that matches no record; the
\* error was appended and the two requested repositories were written
C31_Witness ==
    /\ Terminated
    /\ Len(NoSoftwareErrors) = 1
    /\ \E i \in 1..Len(events) :
          /\ events[i].type = "req" /\ events[i].outcome = "ok"
          /\ Len(events[i].resp) = 3
          /\ events[i].resp[1].url = NoSoftwareErrors[1].url
          /\ Cardinality(Answered(i)) = 2
          /\ events[i + 1].type = "write" /\ events[i + 2].type = "write"

-----------------------------------------------------------------------------
\* the lower-case identifiers of the queued records of the provider being
\* processed, in the order of the queue
QueuedIdents ==
    [j \in 1..Len(projects[provider]) |->
        Ident(software[projects[provider][j]].url.name, FALSE)]

\* C32: the batches planned for a provider partition its queue: in order
\* they concatenate to the normalized identifiers of the queue, every batch
\* is non-empty, and every batch but the last has exactly batch_size
\* identifiers (the last has at most batch_size).
C32_BatchesPartitionQueue ==
    pc = "run" =>
       /\ Flatten(batches) = QueuedIdents
       /\ \A i \in 1..Len(batches) :
             /\ batches[i] # <<>>
             /\ Len(batches[i]) <= cfg.batch_size
             /\ i < Len(batches) => Len(batches[i]) = cfg.batch_size

\* a queue of three was planned with batch_size 2: a full batch and a rest
C32_Witness ==
    /\ pc = "run"
    /\ cfg.batch_size = 2
    /\ Len(batches) = 2
    /\ Len(batches[1]) = 2 /\ Len(batches[2]) = 1

-----------------------------------------------------------------------------
\* b is cut out of a: a contiguous part of it
IsSlice(b, a) ==
    \E s \in 0..(Len(a) - Len(b)) : SubSeq(a, s + 1, s + Len(b)) = b

\* C33: the batches of a provider are processed one after the other, in
\* the order they were planned: the number of the top-level batch an event
\* (request, chunk request, sleep, write) belongs to never decreases within
\* a provider pass, the requests of batch k carry batch k of the plan or a
\* part of it, and only the innermost call is ever about to send a request
\* (every enclosing call is waiting in its loop over the chunks).
C33_BatchesInOrderNoOverlap ==
    /\ \A i \in 1..(Len(events) - 1) :
          (events[i].type # "provider" /\ events[i + 1].type # "provider") =>
             events[i].label[1] <= events[i + 1].label[1]
    /\ pc = "run" =>
          \A e \in Range(EventsOf(provider)) :
             e.type = "req" =>
                /\ e.label[1] \in 1..counter
                /\ IsSlice(e.batch, batches[e.label[1]])
                /\ Len(e.label) = 1 => e.batch = batches[e.label[1]]
    /\ \A h \in 1..(Len(stack) - 1) : stack[h].pc = "split"

\* the first batch was split and its records written before the second
\* batch was requested
C33_Witness ==
    /\ Terminated
    /\ \E i, j, h \in 1..Len(events) :
          /\ i < j /\ j < h
          /\ events[i].type = "req" /\ events[i].label = <<1, 1>>
          /\ events[j].type = "write" /\ events[j].label = <<1, 2>>
          /\ events[h].type = "req" /\ events[h].label = <<2>>

-----------------------------------------------------------------------------
\* The run as the interpreter executes it: a call that can take a step does
\* (no statement of software_metadata() waits for anything but the answer
\* to its own request, and requests.post is given a timeout).
LiveInit ==
    /\ Init
    /\ ~cfg.metadata_only_missing
    /\ environ = {"github", "gitlab"}
    /\ \E st \in PlainStores : disk = [i \in 1..Len(st) |-> Record(i, st[i], {})]
LiveSpec == LiveInit /\ [][Next]_vars /\ WF_vars(Next)

\* the most requests a top-level batch of n identifiers can cost
MostRequests(n) == Max(cfg.max_retries + 1, n * cfg.max_retries)

\* every chunk in progress is a strictly smaller part of the batch it was cut from
ChunksShrink ==
    \A h \in 1..(Len(stack) - 1) :
       /\ Len(stack[h + 1].batch) < Len(stack[h].batch)
       /\ IsSlice(stack[h + 1].batch, stack[h].batch)

\* no top-level batch has issued more requests than a batch of its size can cost
RequestsBounded ==
    \A prov \in Providers, k \in BatchNumbers :
       Started(prov, k) =>
          Len(Requests(BatchEvents(prov, k))) <= MostRequests(Len(TopBatch(prov, k)))

\* C34: the run terminates whatever the API answers; every chunk of a split
\* is strictly smaller than the batch it was cut from, and a top-level batch
\* of n identifiers issues at most max(max_retries + 1, n * max_retries)
\* requests.
C34_RunTerminates ==
    /\ <>Terminated
    /\ []ChunksShrink
    /\ []RequestsBounded

\* the run has ended after a batch of three was split down to single
\* identifiers and given up at the last attempt
C34_Witness ==
    /\ Terminated
    /\ cfg.max_retries = 3
    /\ \E prov \in Providers :
          /\ Started(prov, 1)
          /\ Len(TopBatch(prov, 1)) = 3
          /\ <<1, 2, 1>> \in ReqLabels(EventsOf(prov))
          /\ Len(Requests(BatchEvents(prov, 1))) = MostRequests(3)

-----------------------------------------------------------------------------
\* C35: in a run of software_metadata() a batch of two or more identifiers
\* is only requested with attempt 1 or 2, every split cuts a batch into
\* exactly two chunks, an attempt above 2 is only made for a single
\* identifier, and no request is made with an attempt above max_retries + 1.
C35_MultiBatchAttempts ==
    /\ \A e \in Range(events) :
          e.type = "req" =>
             /\ Len(e.batch) > 1 => e.attempt \in {1, 2}
             /\ e.attempt > 2 => Len(e.batch) = 1
             /\ e.attempt >= 1 /\ e.attempt <= cfg.max_retries + 1
             /\ \A p \in 2..Len(e.label) : e.label[p] \in {1, 2}
    /\ \A h \in 1..Len(stack) :
          /\ stack[h].pc = "split" => Len(stack[h].chunks) = 2
          /\ Len(stack[h].batch) > 1 => stack[h].attempt \in {1, 2}
          /\ stack[h].attempt <= cfg.max_retries + 1

\* a batch of three was cut in two at attempt 2, its chunk of two was cut
\* again at attempt 2, and a single identifier was requested at attempt 3
C35_Witness ==
    /\ \E e \in Range(events) :
          e.type = "req" /\ e.label = <<1, 2>> /\ Len(e.batch) = 2 /\ e.attempt = 2
    /\ \E e \in Range(events) :
          e.type = "req" /\ e.label = <<1, 2, 1>> /\ e.attempt = 3 /\ Len(e.batch) = 1

-----------------------------------------------------------------------------
\* the errors that name a batch or stand for one ('No data received ...')
BatchErrorKinds ==
    {"NoData", "RespCode", "RespCodeAfter", "FailedFor", "GraphQLFailed", "GqlMessage",
     "GqlErrors", "BatchException"}

\* an error was accumulated for the repository of record j or for a batch
ErrorFor(j) ==
    \E e \in Range(errors) :
       \/ e.ident.name = software[j].url.name
       \/ e.url.name = software[j].url.name
       \/ e.kind \in BatchErrorKinds

\* C36: when the run ends in the final check of software_metadata(), every
\* record that was placed in a provider queue has either been updated and
\* written to its file, or an error was accumulated for its repository or
\* for a batch; also when queued records share a normalized identifier.
C36_NoRecordSilentlySkipped ==
    pc \in {"exit0", "exit1"} =>
       \A prov \in Providers : \A j \in Range(QueueOf(prov)) :
          Persisted(j, software[j].url.name) \/ ErrorFor(j)

-----------------------------------------------------------------------------
(***************************************************************************)
(* AliasSpec: process_gitlab_batch on one batch, with the repository paths *)
(* as strings of characters: the aliases of the query are generated, the   *)
(* API answers one project per alias, and the answer is applied to the     *)
(* records of the batch.                                                   *)
(***************************************************************************)
MaxOwnerLen == 2

AsciiLetters ==
    {"a", "b", "c", "d", "e", "f", "g", "h", "i", "j", "k", "l", "m", "n", "o", "p", "q",
     "r", "s", "t", "u", "v", "w", "x", "y", "z", "A", "B", "C", "D", "E", "F", "G", "H",
     "I", "J", "K", "L", "M", "N", "O", "P", "Q", "R", "S", "T", "U", "V", "W", "X", "Y", "Z"}
AsciiDigits == {"0", "1", "2", "3", "4", "5", "6", "7", "8", "9"}

\* generate_gitlab_alias on a string of characters:
\* re.sub(r'[^a-zA-Z0-9_]', '_', repo_path), with 'p' put in front of an
\* alias that is empty or starts with a digit
gitlab_alias(repo_path) ==
    LET alias == [i \in 1..Len(repo_path) |->
                     IF repo_path[i] \in AsciiLetters \cup AsciiDigits \cup {"_"}
                     THEN repo_path[i] ELSE "_"]
    IN  IF alias = <<>> \/ alias[1] \in AsciiDigits THEN <<"p">> \o alias ELSE alias

\* the paths detect_provider queues, casefolded: owner/repo over [\w\.\-]
OwnerChars == {"a", "p", "1", "-", "_"}
Owners == UNION {[1..n -> OwnerChars] : n \in 1..MaxOwnerLen}
RepoPaths == {owner \o <<"/", "a">> : owner \in Owners}
GitlabBatches == UNION {[1..n -> RepoPaths] : n \in 1..2}

AliasInit ==
    /\ RunIdle /\ StoreIdle /\ AggregatorIdle /\ ExtractorIdle /\ OutageIdle /\ CheckerIdle
    /\ gitlab_batch \in GitlabBatches
    /\ repo_to_alias = <<>>
    /\ response_data = [errors |-> FALSE, data |-> {}]
    /\ applied = <<>>

\* lines 501-509: one aliased project(fullPath: ...) field per path of the batch
BuildQuery ==
    /\ repo_to_alias = <<>>
    /\ repo_to_alias' = [i \in 1..Len(gitlab_batch) |-> gitlab_alias(gitlab_batch[i])]
    /\ UNCHANGED <<gitlab_batch, response_data, applied, beside_aliaser>>

\* the fields of the query: alias and fullPath argument
ProjectQueries ==
    {[alias |-> repo_to_alias[i], fullPath |-> gitlab_batch[i]] : i \in 1..Len(gitlab_batch)}

\* two fields of the query have the same alias and different arguments
AliasConflict ==
    \E q1, q2 \in ProjectQueries : q1.alias = q2.alias /\ q1.fullPath # q2.fullPath

\* What the API may answer: an object with one project per alias, the
\* project of one of the fields written under that alias; a query with
\* conflicting fields may also be rejected with an 'errors' array.
ApiAnswers ==
    {[errors |-> FALSE, data |-> d] : d \in
        {d0 \in SUBSET ProjectQueries :
            \A q \in ProjectQueries :
               Cardinality({r \in d0 : r.alias = q.alias}) = 1}}
    \cup (IF AliasConflict THEN {[errors |-> TRUE, data |-> {}]} ELSE {})

\* lines 521-595: the request, and the loop over the batch that applies
\* response_data.get(alias) to the record of each path
ReconcileAliases ==
    /\ repo_to_alias # <<>>
    /\ applied = <<>>
    /\ \E answer \in ApiAnswers :
          /\ response_data' = answer
          /\ applied' =
               [i \in 1..Len(gitlab_batch) |->
                   IF answer.errors THEN None
                   ELSE (CHOOSE r \in answer.data : r.alias = repo_to_alias[i]).fullPath]
    /\ UNCHANGED <<gitlab_batch, repo_to_alias, beside_aliaser>>

AliasNext == BuildQuery \/ ReconcileAliases
AliasSpec == AliasInit /\ [][AliasNext]_vars

\* C37: within one GitLab batch two different repository paths never get
\* the same alias, and every record is updated from the entry of its own
\* repository path only.
C37_AliasesDistinct ==
    /\ \A i, j \in 1..Len(repo_to_alias) :
          gitlab_batch[i] # gitlab_batch[j] => repo_to_alias[i] # repo_to_alias[j]
    /\ \A i \in 1..Len(applied) :
          applied[i] # None => applied[i] = gitlab_batch[i]

-----------------------------------------------------------------------------
\* the requests of a provider's pass that were answered by a split
SplitRequests(prov) ==
    {e \in Range(EventsOf(prov)) :
        /\ e.type = "req" /\ e.outcome = "retryable"
        /\ e.attempt >= 2 /\ e.attempt <= cfg.max_retries
        /\ Len(e.batch) > 1}

\* C38: when a batch is split, every chunk of the split is processed: by
\* the end of the run at least one request was issued for each chunk,
\* however the chunks before it ended (success, failure after the retries,
\* or an exception raised while its response was applied).
C38_EveryChunkProcessed ==
    Terminated =>
       \A prov \in Providers : \A e \in SplitRequests(prov) :
          \A c \in 1..Len(split_batches(e.batch, e.attempt)) :
             Append(e.label, c) \in ReqLabels(EventsOf(prov))

-----------------------------------------------------------------------------
\* event i is a backoff sleep
IsBackoff(i) == events[i].type = "sleep" /\ events[i].outcome = "backoff"

\* C39: every backoff sleep is followed by a further request for the same
\* batch or for one of its chunks: the next thing the run does after the
\* sleep is that request.  A batch is never given up after a sleep.
C39_NoSleepBeforeGivingUp ==
    \A i \in 1..Len(events) :
       IsBackoff(i) =>
          IF i < Len(events)
          THEN /\ events[i + 1].type = "req"
               /\ IsPrefix(events[i].label, events[i + 1].label)
          ELSE /\ pc = "run" /\ stack # <<>>
               /\ Last(stack).pc = "request"
               /\ IsPrefix(events[i].label, Last(stack).label)

====
